---- MODULE Spec2Model ----
(***************************************************************************)
(* Invoice pipeline of the Peppol e-invoicing converter: the normalizer    *)
(* (src/mapping/normalize.ts), the business-rule validator                 *)
(* (src/unnamed/part_008), the UBL serializer (src/mapping/toUbl.ts), the  *)
(* update handler (src/unnamed/part_003) and the AI enhancer               *)
(* (src/parser/ai.ts).                                                     *)
(*                                                                         *)
(* JavaScript values are records [k, n, s]: k is the type tag, n the       *)
(* number in thousandths (1.005 is 1005), s the string as a sequence of    *)
(* one-character strings.  A Date carries its day as yyyymmdd in n; the    *)
(* Invalid Date carries the text "Invalid Date" in s.                      *)
(***************************************************************************)
EXTENDS Integers, Sequences, FiniteSets, TLC

VARIABLES
    pc,          \* position of the running handler / function under study
    invoice,     \* the invoice object the caller holds and passes in
    before,      \* the caller's invoice as it was when the call was made
    normalized,  \* value returned by normalizeInvoice
    renormalized,\* value returned by normalizeInvoice applied to normalized
    errors,      \* codes pushed by validateBusinessRules, in order
    lineChecks,  \* per line: the validator's calculatedTotal (or "skipped")
    ubl,         \* document built by convertToUBL
    status,      \* HTTP status of the update handler (0: none yet)
    roundIn,     \* argument of roundTo2Decimals, in thousandths
    roundOut,    \* result of roundTo2Decimals, in thousandths
    mappingFields, \* the candidate MappingField list handed to parseWithAI
    geminiKey,   \* GEMINI_API_KEY is set and non-empty
    mimeType,    \* declared MIME type of the upload
    extractedText, \* text parseWithAI extracted ("" when none)
    requests,    \* requests sent to the completion service, in order
    aiFailures,  \* steps of the enhancement that failed so far
    aiResponse,  \* parsed response of the completion service
    aiResult,    \* what parseWithAI returned to its caller
    dataQualityErrors, \* entries returned by validateDataQuality, in order
    report,      \* the ValidationReport of the handler
    qualityScore, \* result of calculateDataQualityScore
    anonUsage,   \* the AnonUsage table: one row per anon_id
    convertReq,  \* the convert requests in flight, with their local variables
    now,         \* the server's clock, in days
    processedToday, \* conversions stored since the clock last advanced
    uploadsLeft, \* requests the client has still to send
    payment,     \* each user's latest Payment row
    conversion,  \* the Conversion row the download request names
    downloadReq, \* the download request in flight, with its local variables
    balanceBefore, \* each user's creditsBalance when the download request arrived
    downloadResponse, \* status and body of the last download response
    paymentRows, \* the Payment rows of one user, in the order of their creation
    billingReq,  \* webhook deliveries and credit-using downloads in flight
    credited,    \* per Mollie payment: how often its credits were added
    billingLeft, \* requests still to arrive at the webhook and the download handler
    upload       \* the uploaded file as the parser reads it

pipelineVars == <<pc, invoice, before, normalized, renormalized, errors, lineChecks, ubl, status>>
roundVars == <<roundIn, roundOut>>
aiVars == <<mappingFields, geminiKey, mimeType, extractedText, requests, aiFailures, aiResponse, aiResult>>
reportVars == <<dataQualityErrors, report, qualityScore>>
quotaVars == <<anonUsage, convertReq, now, processedToday, uploadsLeft>>
downloadVars == <<payment, conversion, downloadReq, balanceBefore, downloadResponse>>
billingVars == <<paymentRows, billingReq, credited, billingLeft>>
parserVars == <<upload>>
accountVars == <<quotaVars, downloadVars, billingVars, parserVars>>

----------------------------------------------------------------------------
(* JavaScript values *)

Undefined == [k |-> "undefined", n |-> 0, s |-> <<>>]
Null == [k |-> "null", n |-> 0, s |-> <<>>]
Num(x) == [k |-> "number", n |-> x, s |-> <<>>]
Str(chars) == [k |-> "string", n |-> 0, s |-> chars]
DateOf(ymd) == [k |-> "date", n |-> ymd, s |-> <<>>]
InvalidDate == [k |-> "date", n |-> 0, s |-> <<"I","n","v","a","l","i","d"," ","D","a","t","e">>]

\* ToBoolean: undefined, null, 0 and "" are falsy; every object (a Date, even
\* an invalid one) is truthy.
Truthy(v) ==
    CASE v.k = "undefined" -> FALSE
      [] v.k = "null" -> FALSE
      [] v.k = "number" -> v.n # 0
      [] v.k = "string" -> v.s # <<>>
      [] OTHER -> TRUE

\* a || b
Or(a, b) == IF Truthy(a) THEN a ELSE b

\* ToNumber on the operands the code multiplies and adds: a number is itself,
\* null is 0 (the guards of the code exclude undefined before arithmetic).
ToNumber(v) == IF v.k = "number" THEN v.n ELSE 0

IsNullish(v) == v.k \in {"undefined", "null"}

----------------------------------------------------------------------------
(* Strings *)

LowerCase == <<"a","b","c","d","e","f","g","h","i","j","k","l","m","n","o","p","q","r","s","t","u","v","w","x","y","z">>
UpperCase == <<"A","B","C","D","E","F","G","H","I","J","K","L","M","N","O","P","Q","R","S","T","U","V","W","X","Y","Z">>
Digits == {"0","1","2","3","4","5","6","7","8","9"}

IsUpper(c) == \E i \in 1..Len(UpperCase) : UpperCase[i] = c
IsWhitespace(c) == c \in {" ", "\t", "\n"}

UpperChar(c) ==
    IF \E i \in 1..Len(LowerCase) : LowerCase[i] = c
    THEN UpperCase[CHOOSE i \in 1..Len(LowerCase) : LowerCase[i] = c]
    ELSE c

toUpperCase(str) == [i \in 1..Len(str) |-> UpperChar(str[i])]

\* str.replace(/\s/g, '')
RECURSIVE StripWhitespace(_)
StripWhitespace(str) ==
    IF str = <<>> THEN <<>>
    ELSE IF IsWhitespace(Head(str)) THEN StripWhitespace(Tail(str))
    ELSE <<Head(str)>> \o StripWhitespace(Tail(str))

\* str.trim()
RECURSIVE TrimLeft(_)
TrimLeft(str) ==
    IF str # <<>> /\ IsWhitespace(Head(str)) THEN TrimLeft(Tail(str)) ELSE str

RECURSIVE TrimRight(_)
TrimRight(str) ==
    IF str # <<>> /\ IsWhitespace(str[Len(str)])
    THEN TrimRight(SubSeq(str, 1, Len(str) - 1)) ELSE str

trim(str) == TrimRight(TrimLeft(str))

AllDigits(str) == \A i \in 1..Len(str) : str[i] \in Digits

----------------------------------------------------------------------------
(* Rounding *)

\* Math.round(value * 100) / 100 for the value n/scale; the result is in
\* thousandths.  Math.round rounds to the nearest integer and a tie towards
\* +infinity: floor(x + 1/2).  scale is 1000, 10^6 or 10^8 (a stored number,
\* a product of two numbers, a product divided by 100).
roundTo2Decimals(n, scale) == ((n + scale \div 200) \div (scale \div 100)) * 10

\* Round half away from zero at 2 decimal places, in thousandths.
RoundHalfAwayFromZero(n, scale) ==
    IF n >= 0 THEN ((n + scale \div 200) \div (scale \div 100)) * 10
    ELSE 0 - (((0 - n) + scale \div 200) \div (scale \div 100)) * 10

----------------------------------------------------------------------------
(* Data model (src/types/invoice.ts) *)

NoAddress == [k |-> "undefined", street |-> Undefined, city |-> Undefined,
              postalCode |-> Undefined, countryCode |-> Undefined]
Address(street, city, postalCode, countryCode) ==
    [k |-> "object", street |-> street, city |-> city,
     postalCode |-> postalCode, countryCode |-> countryCode]

NoParty == [k |-> "undefined", name |-> Undefined, address |-> NoAddress,
            vatNumber |-> Undefined, kboNumber |-> Undefined]
Party(name, address, vatNumber) ==
    [k |-> "object", name |-> name, address |-> address,
     vatNumber |-> vatNumber, kboNumber |-> Undefined]

Line(description, quantity, unitPrice, vatRate, lineTotal) ==
    [description |-> description, quantity |-> quantity, unitPrice |-> unitPrice,
     unitOfMeasure |-> Undefined, vatRate |-> vatRate, vatCategory |-> Undefined,
     lineTotal |-> lineTotal, confidence |-> Undefined]

\* The invoice with no field set: {lines: []}
EmptyInvoice ==
    [invoiceNumber |-> Undefined, issueDate |-> Undefined, dueDate |-> Undefined,
     currency |-> Undefined, supplier |-> NoParty, customer |-> NoParty,
     paymentReference |-> Undefined, iban |-> Undefined, lines |-> <<>>,
     subtotalExclVat |-> Undefined, vatTotal |-> Undefined, totalInclVat |-> Undefined]

----------------------------------------------------------------------------
(* Normalizer (src/mapping/normalize.ts) *)

EUR == <<"E","U","R">>
C62 == <<"C","6","2">>
StandardRate == <<"S">>

\* /^[A-Z]{2}/
HasCountryPrefix(str) == Len(str) >= 2 /\ IsUpper(str[1]) /\ IsUpper(str[2])
\* /^\d{10}$/
IsBelgianFormat(str) == Len(str) = 10 /\ AllDigits(str)
\* /^\d{9}B\d{2}$/
IsDutchFormat(str) ==
    /\ Len(str) = 12
    /\ AllDigits(SubSeq(str, 1, 9))
    /\ str[10] = "B"
    /\ AllDigits(SubSeq(str, 11, 12))

normalizeVATNumberAlwaysPrefixing(vat) ==
    LET stripped == toUpperCase(StripWhitespace(vat))
    IN  IF Len(stripped) >= 10 /\ IsBelgianFormat(SubSeq(stripped, Len(stripped) - 9, Len(stripped)))
        THEN <<"B","E">> \o stripped
        ELSE stripped
normalizeVATNumber(vat) ==
    LET stripped == toUpperCase(StripWhitespace(vat))
    IN  IF ~HasCountryPrefix(stripped)
        THEN IF IsBelgianFormat(stripped) THEN <<"B","E">> \o stripped
             ELSE IF IsDutchFormat(stripped) THEN <<"N","L">> \o stripped
             ELSE stripped
        ELSE stripped

normalizeIBAN(iban) == toUpperCase(StripWhitespace(iban))

\* new Date(value) for a value that is not a Date.  The engine's parser is
\* modelled on the ISO form YYYY-MM-DD: a month 01..12 and a day 01..31 give
\* that day, anything else the Invalid Date.
DigitValue(c) == CHOOSE d \in 0..9 : <<"0","1","2","3","4","5","6","7","8","9">>[d + 1] = c
RECURSIVE Number(_)
Number(str) ==
    IF str = <<>> THEN 0
    ELSE Number(SubSeq(str, 1, Len(str) - 1)) * 10 + DigitValue(str[Len(str)])

IsIsoDate(str) ==
    /\ Len(str) = 10
    /\ AllDigits(SubSeq(str, 1, 4)) /\ str[5] = "-"
    /\ AllDigits(SubSeq(str, 6, 7)) /\ str[8] = "-"
    /\ AllDigits(SubSeq(str, 9, 10))
    /\ Number(SubSeq(str, 6, 7)) \in 1..12
    /\ Number(SubSeq(str, 9, 10)) \in 1..31

NewDate(v) ==
    IF v.k = "date" THEN v
    ELSE IF v.k = "string" /\ IsIsoDate(v.s)
    THEN DateOf(Number(SubSeq(v.s, 1, 4)) * 10000 + Number(SubSeq(v.s, 6, 7)) * 100
                + Number(SubSeq(v.s, 9, 10)))
    ELSE InvalidDate

normalizeLineTreatingZeroAsMissing(line) ==
    LET quantity == IF IsNullish(line.quantity) THEN Num(1000) ELSE line.quantity
    IN  [line EXCEPT
            !.quantity = quantity,
            !.lineTotal =
                IF line.unitPrice.k # "undefined" /\ ~Truthy(line.lineTotal)
                THEN Num(roundTo2Decimals(ToNumber(line.unitPrice) * ToNumber(quantity), 1000000))
                ELSE line.lineTotal,
            !.vatRate =
                IF line.vatRate.k # "undefined"
                THEN Num(roundTo2Decimals(ToNumber(line.vatRate), 1000))
                ELSE line.vatRate,
            !.vatCategory =
                IF line.vatRate.k # "undefined" /\ ~Truthy(line.vatCategory)
                THEN Str(StandardRate)
                ELSE line.vatCategory,
            !.unitOfMeasure = IF Truthy(line.unitOfMeasure) THEN line.unitOfMeasure ELSE Str(C62)]
normalizeLine(line) ==
    LET quantity == IF IsNullish(line.quantity) THEN Num(1000) ELSE line.quantity
    IN  [line EXCEPT
            !.quantity = quantity,
            !.lineTotal =
                IF line.unitPrice.k # "undefined" /\ IsNullish(line.lineTotal)
                THEN Num(roundTo2Decimals(ToNumber(line.unitPrice) * ToNumber(quantity), 1000000))
                ELSE line.lineTotal,
            !.vatRate =
                IF line.vatRate.k # "undefined"
                THEN Num(roundTo2Decimals(ToNumber(line.vatRate), 1000))
                ELSE line.vatRate,
            !.vatCategory =
                IF line.vatRate.k # "undefined" /\ ~Truthy(line.vatCategory)
                THEN Str(StandardRate)
                ELSE line.vatCategory,
            !.unitOfMeasure = IF Truthy(line.unitOfMeasure) THEN line.unitOfMeasure ELSE Str(C62)]

\* lines.reduce((sum, line) => sum + (line.lineTotal || 0), 0), in thousandths
RECURSIVE SumLineTotals(_)
SumLineTotals(lines) ==
    IF lines = <<>> THEN 0
    ELSE SumLineTotals(SubSeq(lines, 1, Len(lines) - 1))
         + ToNumber(Or(lines[Len(lines)].lineTotal, Num(0)))

\* lines.reduce: sum + (lineTotal * vatRate) / 100 for the lines where both are
\* truthy; the sum is in units of 10^-8 (thousandths x thousandths / 100).
RECURSIVE SumLineVat(_)
SumLineVat(lines) ==
    IF lines = <<>> THEN 0
    ELSE LET line == lines[Len(lines)]
         IN  SumLineVat(SubSeq(lines, 1, Len(lines) - 1))
             + (IF Truthy(line.lineTotal) /\ Truthy(line.vatRate)
                THEN ToNumber(line.lineTotal) * ToNumber(line.vatRate)
                ELSE 0)

calculateTotals(inv) ==
    LET subtotal ==
            IF Len(inv.lines) > 0 /\ IsNullish(inv.subtotalExclVat)
            THEN Num(roundTo2Decimals(SumLineTotals(inv.lines), 1000))
            ELSE inv.subtotalExclVat
        vatTotal ==
            IF Len(inv.lines) > 0 /\ inv.vatTotal.k = "undefined"
            THEN Num(roundTo2Decimals(SumLineVat(inv.lines), 100000000))
            ELSE inv.vatTotal
        total ==
            IF subtotal.k # "undefined" /\ vatTotal.k # "undefined" /\ IsNullish(inv.totalInclVat)
            THEN Num(roundTo2Decimals(ToNumber(subtotal) + ToNumber(vatTotal), 1000))
            ELSE inv.totalInclVat
    IN  [inv EXCEPT !.subtotalExclVat = subtotal, !.vatTotal = vatTotal, !.totalInclVat = total]

\* normalized.supplier is the object invoice.supplier ({ ...invoice } copies
\* the top level only): the assignment to normalized.supplier.vatNumber
\* writes to the party object both invoices hold.
normalizeParty(party) ==
    IF party.k = "object" /\ Truthy(party.vatNumber)
    THEN [party EXCEPT !.vatNumber = Str(normalizeVATNumber(party.vatNumber.s))]
    ELSE party

\* The value normalizeInvoice returns.
normalizeInvoice(inv) ==
    LET currency == IF Truthy(inv.currency) THEN inv.currency.s ELSE EUR
        header ==
            [inv EXCEPT
                !.currency = Str(toUpperCase(currency)),
                !.issueDate = IF Truthy(inv.issueDate) THEN NewDate(inv.issueDate) ELSE inv.issueDate,
                !.dueDate = IF Truthy(inv.dueDate) THEN NewDate(inv.dueDate) ELSE inv.dueDate,
                !.supplier = normalizeParty(inv.supplier),
                !.customer = normalizeParty(inv.customer),
                !.iban = IF Truthy(inv.iban) THEN Str(normalizeIBAN(inv.iban.s)) ELSE inv.iban,
                !.lines = [i \in 1..Len(inv.lines) |-> normalizeLine(inv.lines[i])]]
    IN  calculateTotals(header)

\* The argument of normalizeInvoice as the caller finds it after the call:
\* its own properties are untouched (the copy took the writes), the two party
\* objects it shares with the result are not.
normalizeInvoiceArgument(inv) ==
    [inv EXCEPT !.supplier = normalizeParty(inv.supplier),
                !.customer = normalizeParty(inv.customer)]

----------------------------------------------------------------------------
(* Business-rule validator (src/unnamed/part_008) *)

\* new Date() at the time of the request: a day after every sample date but
\* the one in the future.
Now == DateOf(20261103)

Entry(code, severity) == [code |-> code, severity |-> severity]
When(cond, entry) == IF cond THEN <<entry>> ELSE <<>>

IsBlank(v) == ~Truthy(v) \/ (v.k = "string" /\ trim(v.s) = <<>>)

Abs(x) == IF x < 0 THEN 0 - x ELSE x

issueDateEntriesRequiringDate(inv) ==
    IF ~Truthy(inv.issueDate) \/ NewDate(inv.issueDate) = InvalidDate
    THEN <<Entry("ERR_INVALID_ISSUE_DATE", "error")>>
    ELSE When(NewDate(inv.issueDate).n > Now.n, Entry("ERR_FUTURE_ISSUE_DATE", "warning"))

\* The issue-date block: missing, invalid, or in the future.
issueDateEntries(inv) ==
    IF ~Truthy(inv.issueDate)
    THEN <<Entry("WARN_MISSING_ISSUE_DATE", "warning")>>
    ELSE LET issueDate == NewDate(inv.issueDate)
         IN  IF issueDate = InvalidDate
             THEN <<Entry("ERR_INVALID_ISSUE_DATE", "error")>>
             ELSE When(issueDate.n > Now.n, Entry("ERR_FUTURE_ISSUE_DATE", "warning"))

\* calculatedTotal of the ERR_INVALID_LINE_AMOUNT block, for a line the block
\* looks at (quantity, unitPrice and lineTotal all !== undefined).
lineIsChecked(line) ==
    line.quantity.k # "undefined" /\ line.unitPrice.k # "undefined" /\ line.lineTotal.k # "undefined"
lineCalculatedTotal(line) ==
    roundTo2Decimals(ToNumber(Or(line.quantity, Num(0))) * ToNumber(Or(line.unitPrice, Num(0))), 1000000)

lineEntries(line) ==
    When(IsBlank(line.description), Entry("WARN_MISSING_LINE_DESCRIPTION", "warning"))
    \o When(lineIsChecked(line)
            /\ Abs(lineCalculatedTotal(line) - roundTo2Decimals(ToNumber(line.lineTotal), 1000)) > 10,
            Entry("ERR_INVALID_LINE_AMOUNT", "error"))

RECURSIVE allLineEntries(_)
allLineEntries(lines) ==
    IF lines = <<>> THEN <<>>
    ELSE allLineEntries(SubSeq(lines, 1, Len(lines) - 1)) \o lineEntries(lines[Len(lines)])

\* lines.reduce: sum + roundTo2Decimals((lineTotal * vatRate) / 100) for the
\* lines where both are truthy, in thousandths.
RECURSIVE SumRoundedLineVat(_)
SumRoundedLineVat(lines) ==
    IF lines = <<>> THEN 0
    ELSE LET line == lines[Len(lines)]
         IN  SumRoundedLineVat(SubSeq(lines, 1, Len(lines) - 1))
             + (IF Truthy(line.lineTotal) /\ Truthy(line.vatRate)
                THEN roundTo2Decimals(ToNumber(line.lineTotal) * ToNumber(line.vatRate), 100000000)
                ELSE 0)

totalsEntries(inv) ==
    IF Len(inv.lines) > 0
    THEN When(inv.subtotalExclVat.k # "undefined"
              /\ Abs(SumLineTotals(inv.lines) - ToNumber(inv.subtotalExclVat)) > 10,
              Entry("ERR_INVALID_SUBTOTAL", "error"))
         \o When(inv.vatTotal.k # "undefined" /\ SumRoundedLineVat(inv.lines) > 0
                 /\ Abs(SumRoundedLineVat(inv.lines) - ToNumber(inv.vatTotal)) > 10,
                 Entry("ERR_INVALID_VAT_TOTAL", "error"))
         \o When(inv.subtotalExclVat.k # "undefined" /\ inv.vatTotal.k # "undefined"
                 /\ inv.totalInclVat.k # "undefined"
                 /\ Abs(roundTo2Decimals(ToNumber(inv.subtotalExclVat) + ToNumber(inv.vatTotal), 1000)
                        - roundTo2Decimals(ToNumber(inv.totalInclVat), 1000)) > 10,
                 Entry("ERR_INVALID_TOTAL", "error"))
    ELSE <<>>

StartsWith(str, prefix) == Len(str) >= Len(prefix) /\ SubSeq(str, 1, Len(prefix)) = prefix

\* TRUE when validateVATNumberFormat returns an error entry
validateVATNumberFormat(vatNumber) ==
    LET n == toUpperCase(StripWhitespace(vatNumber))
    IN  IF StartsWith(n, <<"B","E">>) /\ ~IsBelgianFormat(SubSeq(n, 3, Len(n))) THEN TRUE
        ELSE StartsWith(n, <<"N","L">>) /\ ~IsDutchFormat(SubSeq(n, 3, Len(n)))

vatNumberEntries(party) ==
    When(party.k = "object" /\ Truthy(party.vatNumber) /\ validateVATNumberFormat(party.vatNumber.s),
         Entry("ERR_INVALID_VAT_FORMAT", "error"))

validateBusinessRules(inv) ==
    When(IsBlank(inv.invoiceNumber), Entry("WARN_MISSING_INVOICE_ID", "warning"))
    \o issueDateEntries(inv)
    \o When(IsBlank(inv.supplier.name), Entry("WARN_MISSING_SUPPLIER_NAME", "warning"))
    \o When(~Truthy(inv.supplier.address.countryCode), Entry("WARN_MISSING_SUPPLIER_COUNTRY", "warning"))
    \o When(IsBlank(inv.customer.name), Entry("WARN_MISSING_CUSTOMER_NAME", "warning"))
    \o When(Len(inv.lines) = 0, Entry("WARN_NO_INVOICE_LINES", "warning"))
    \o allLineEntries(inv.lines)
    \o totalsEntries(inv)
    \o vatNumberEntries(inv.supplier)
    \o vatNumberEntries(inv.customer)
    \o When(Truthy(inv.currency) /\ inv.currency.s # EUR, Entry("WARN_NON_EUR_CURRENCY", "warning"))

HasCode(list, code) == \E i \in 1..Len(list) : list[i].code = code

----------------------------------------------------------------------------
(* UBL serializer (src/mapping/toUbl.ts) *)

UNKNOWN == <<"U","N","K","N","O","W","N">>
BE == <<"B","E">>
Item == <<"I","t","e","m">>

\* String(n).padStart(width, '0') for n >= 0
RECURSIVE ToDigits(_)
ToDigits(n) ==
    IF n < 10 THEN <<(<<"0","1","2","3","4","5","6","7","8","9">>)[n + 1]>>
    ELSE ToDigits(n \div 10) \o ToDigits(n % 10)
padStart2(str) == IF Len(str) < 2 THEN <<"0">> \o str ELSE str

\* formatDateForUBL: the result string, for a Date argument.  An Invalid Date
\* answers NaN to getFullYear, getMonth and getDate.
NaN == <<"N","a","N">>
formatDateForUBL(date) ==
    IF date = InvalidDate
    THEN NaN \o <<"-">> \o NaN \o <<"-">> \o NaN
    ELSE ToDigits(date.n \div 10000) \o <<"-">> \o padStart2(ToDigits((date.n \div 100) % 100))
         \o <<"-">> \o padStart2(ToDigits(date.n % 100))

\* formatDateForUBL calls date.getFullYear(): a TypeError for every argument
\* that is not a Date object (a string has no such method).
formatDateForUBLThrows(date) == date.k # "date"

buildPartyOmittingEmpty(party) ==
    [Name |-> IF Truthy(party.name) THEN party.name ELSE Undefined,
     IdentificationCode |-> party.address.countryCode,
     StreetName |-> IF Truthy(party.address.street) THEN party.address.street ELSE Undefined,
     CityName |-> IF Truthy(party.address.city) THEN party.address.city ELSE Undefined,
     PostalZone |-> IF Truthy(party.address.postalCode) THEN party.address.postalCode ELSE Undefined,
     CompanyID |-> IF Truthy(party.vatNumber) THEN party.vatNumber ELSE Undefined,
     RegistrationName |-> IF Truthy(party.name) THEN party.name ELSE Undefined]

buildParty(party) ==
    [Name |-> Or(party.name, Str(<<>>)),
     IdentificationCode |-> Or(party.address.countryCode, Str(BE)),
     StreetName |-> IF Truthy(party.address.street) THEN party.address.street ELSE Undefined,
     CityName |-> IF Truthy(party.address.city) THEN party.address.city ELSE Undefined,
     PostalZone |-> IF Truthy(party.address.postalCode) THEN party.address.postalCode ELSE Undefined,
     CompanyID |-> IF Truthy(party.vatNumber) THEN party.vatNumber ELSE Undefined,
     RegistrationName |-> IF Truthy(party.name) THEN party.name ELSE Undefined]

buildInvoiceLine(line) ==
    LET quantity == Or(line.quantity, Num(1000))
        unitPrice == Or(line.unitPrice, Num(0))
        lineTotal == Or(line.lineTotal,
                        Num(roundTo2Decimals(ToNumber(quantity) * ToNumber(unitPrice), 1000000)))
        vatRate == Or(line.vatRate, Num(0))
        vatAmount == Num(roundTo2Decimals(ToNumber(lineTotal) * ToNumber(vatRate), 100000000))
    IN  [InvoicedQuantity |-> quantity,
         unitCode |-> Or(line.unitOfMeasure, Str(C62)),
         LineExtensionAmount |-> lineTotal,
         Description |-> Or(line.description, Str(Item)),
         PriceAmount |-> unitPrice,
         TaxAmount |-> vatAmount,
         TaxableAmount |-> lineTotal,
         TaxCategoryID |-> Or(line.vatCategory, Str(StandardRate)),
         Percent |-> vatRate]

\* The lines buildTaxTotals groups, and the rates in order of first occurrence
\* (the insertion order of the Map).
IsGrouped(line) == line.vatRate.k # "undefined" /\ line.lineTotal.k # "undefined"

RECURSIVE vatGroupRates(_)
vatGroupRates(lines) ==
    IF lines = <<>> THEN <<>>
    ELSE LET rest == vatGroupRates(SubSeq(lines, 1, Len(lines) - 1))
             line == lines[Len(lines)]
         IN  IF IsGrouped(line) /\ ~\E i \in 1..Len(rest) : rest[i] = line.vatRate
             THEN Append(rest, line.vatRate)
             ELSE rest

RECURSIVE groupTaxable(_, _)
groupTaxable(lines, rate) ==
    IF lines = <<>> THEN 0
    ELSE LET line == lines[Len(lines)]
         IN  groupTaxable(SubSeq(lines, 1, Len(lines) - 1), rate)
             + (IF IsGrouped(line) /\ line.vatRate = rate THEN ToNumber(line.lineTotal) ELSE 0)

RECURSIVE groupTax(_, _)
groupTax(lines, rate) ==
    IF lines = <<>> THEN 0
    ELSE LET line == lines[Len(lines)]
         IN  groupTax(SubSeq(lines, 1, Len(lines) - 1), rate)
             + (IF IsGrouped(line) /\ line.vatRate = rate
                THEN roundTo2Decimals(ToNumber(line.lineTotal) * ToNumber(rate), 100000000)
                ELSE 0)

buildTaxTotals(inv) ==
    LET rates == vatGroupRates(inv.lines)
        groups == [i \in 1..Len(rates) |->
                     [TaxAmount |-> Num(roundTo2Decimals(groupTax(inv.lines, rates[i]), 1000)),
                      TaxableAmount |-> Num(roundTo2Decimals(groupTaxable(inv.lines, rates[i]), 1000)),
                      Percent |-> rates[i]]]
    IN  IF Len(groups) = 0 /\ Truthy(inv.vatTotal)
        THEN <<[TaxAmount |-> inv.vatTotal,
                TaxableAmount |-> Or(inv.subtotalExclVat, Num(0)),
                Percent |-> Num(0)]>>
        ELSE groups

\* The block convertToUBL emits when buildTaxTotals returns no group; it has a
\* TaxAmount only.
EmptyTaxTotal == [TaxAmount |-> Num(0), TaxableAmount |-> Undefined, Percent |-> Undefined]

\* lines.reduce of buildLegalMonetaryTotal: the VAT of each line is rounded
\* before it is added, in thousandths.
buildLegalMonetaryTotal(inv) ==
    LET subtotal0 ==
            IF inv.subtotalExclVat.k = "undefined" /\ Len(inv.lines) > 0
            THEN Num(SumLineTotals(inv.lines)) ELSE inv.subtotalExclVat
        vatTotal0 ==
            IF inv.vatTotal.k = "undefined" /\ Len(inv.lines) > 0
            THEN Num(SumRoundedLineVat(inv.lines)) ELSE inv.vatTotal
        subtotal == Or(subtotal0, Num(0))
        vatTotal == Or(vatTotal0, Num(0))
        total == Or(inv.totalInclVat,
                    Num(roundTo2Decimals(ToNumber(subtotal) + ToNumber(vatTotal), 1000)))
    IN  [LineExtensionAmount |-> Num(roundTo2Decimals(ToNumber(subtotal), 1000)),
         TaxExclusiveAmount |-> Num(roundTo2Decimals(ToNumber(subtotal), 1000)),
         TaxInclusiveAmount |-> Num(roundTo2Decimals(ToNumber(total), 1000)),
         PayableAmount |-> Num(roundTo2Decimals(ToNumber(total), 1000))]

NoDocument == [k |-> "none"]
TypeError == [k |-> "TypeError"]

\* What a call of convertToUBL ends with: the document, or the TypeError of
\* formatDateForUBL.  The issue date is formatted first, then the due date.
convertToUBL(inv) ==
    LET issueDate == Or(inv.issueDate, Now)
    IN  IF formatDateForUBLThrows(issueDate) THEN TypeError
        ELSE IF Truthy(inv.dueDate) /\ formatDateForUBLThrows(inv.dueDate) THEN TypeError
        ELSE [k |-> "document",
              ID |-> Or(inv.invoiceNumber, Str(UNKNOWN)),
              IssueDate |-> Str(formatDateForUBL(issueDate)),
              DueDate |-> IF Truthy(inv.dueDate) THEN Str(formatDateForUBL(inv.dueDate)) ELSE Undefined,
              DocumentCurrencyCode |-> Or(inv.currency, Str(EUR)),
              AccountingSupplierParty |-> buildParty(inv.supplier),
              AccountingCustomerParty |-> buildParty(inv.customer),
              InvoiceLine |-> [i \in 1..Len(inv.lines) |-> buildInvoiceLine(inv.lines[i])],
              TaxTotal |-> IF Len(buildTaxTotals(inv)) > 0 THEN buildTaxTotals(inv) ELSE <<EmptyTaxTotal>>,
              LegalMonetaryTotal |-> buildLegalMonetaryTotal(inv)]

----------------------------------------------------------------------------
(* Data-quality checker and report (src/unnamed/part_008 6-386, 690-703) *)

\* a < b on JavaScript values holding a number in thousandths; anything
\* compared with undefined is false, and null counts as 0.
Less(a, b) == a.k \in {"number", "null"} /\ b.k \in {"number", "null"} /\ ToNumber(a) < ToNumber(b)

\* v > limit, for a limit in whole units (too large to hold in thousandths)
MoreThanUnits(v, limit) ==
    /\ v.k \in {"number", "null"}
    /\ \/ ToNumber(v) \div 1000 > limit
       \/ ToNumber(v) \div 1000 = limit /\ ToNumber(v) % 1000 > 0

\* String.prototype.includes
Includes(str, sub) == \E i \in 1..(Len(str) - Len(sub) + 1) : SubSeq(str, i, i + Len(sub) - 1) = sub

\* mappingFields.find((m) => m.field === field): the first entry of the path
HasMapping(fields, field) == \E i \in 1..Len(fields) : fields[i].field = field
FindMapping(fields, field) ==
    fields[CHOOSE i \in 1..Len(fields) :
               fields[i].field = field /\ \A h \in 1..(i - 1) : fields[h].field # field]

criticalFields == <<"invoiceNumber", "issueDate", "supplier.name", "customer.name">>

\* minConfidence of the critical fields, in hundredths
minConfidence(field) == IF field = "issueDate" THEN 60 ELSE 50

RECURSIVE lowConfidenceEntries(_, _)
lowConfidenceEntries(fields, n) ==
    IF n = 0 THEN <<>>
    ELSE lowConfidenceEntries(fields, n - 1)
         \o When(HasMapping(fields, criticalFields[n])
                 /\ FindMapping(fields, criticalFields[n]).confidence < minConfidence(criticalFields[n]),
                 Entry("WARN_LOW_CONFIDENCE", "warning"))

NA == <<"N","/","A">>
NULL == <<"N","U","L","L">>

suspiciousInvoiceNumber(v) ==
    LET n == toUpperCase(trim(v.s))
    IN  n = UNKNOWN \/ n = NA \/ n = NULL \/ Len(n) < 3

suspiciousNames ==
    {UNKNOWN, NA, NULL, <<"T","B","D">>,
     <<"T","O"," ","B","E"," ","D","E","T","E","R","M","I","N","E","D">>,
     <<"E","X","A","M","P","L","E">>, <<"T","E","S","T">>}

suspiciousName(v) ==
    LET name == trim(v.s)
    IN  (\E s \in suspiciousNames : Includes(toUpperCase(name), s)) \/ Len(name) < 2

validCountryCodes ==
    {<<"B","E">>, <<"N","L">>, <<"D","E">>, <<"F","R">>, <<"G","B">>, <<"I","T">>, <<"E","S">>,
     <<"A","T">>, <<"D","K">>, <<"S","E">>, <<"N","O">>, <<"F","I">>, <<"P","L">>, <<"C","Z">>,
     <<"H","U">>, <<"R","O">>, <<"B","G">>, <<"H","R">>, <<"S","I">>, <<"S","K">>, <<"E","E">>,
     <<"L","V">>, <<"L","T">>, <<"I","E">>, <<"P","T">>, <<"G","R">>, <<"L","U">>, <<"M","T">>,
     <<"C","Y">>}

\* Not older than five years, not more than a year ahead
issueDateQualityEntries(inv) ==
    IF Truthy(inv.issueDate) /\ NewDate(inv.issueDate) # InvalidDate
    THEN When(NewDate(inv.issueDate).n < Now.n - 50000, Entry("WARN_VERY_OLD_DATE", "warning"))
         \o When(NewDate(inv.issueDate).n > Now.n + 10000, Entry("WARN_FAR_FUTURE_DATE", "warning"))
    ELSE <<>>

lineQualityEntriesMisclassified(line) ==
    When(line.quantity.k # "undefined" /\ Less(line.quantity, Num(0)),
         Entry("ERR_NEGATIVE_QUANTITY", "warning"))
    \o When(line.lineTotal = Num(0), Entry("WARN_ZERO_LINE_TOTAL", "error"))

lineQualityEntries(line) ==
    When(line.quantity.k # "undefined" /\ Less(line.quantity, Num(0)),
         Entry("ERR_NEGATIVE_QUANTITY", "error"))
    \o When(line.unitPrice.k # "undefined" /\ Less(line.unitPrice, Num(0)),
            Entry("ERR_NEGATIVE_PRICE", "error"))
    \o When(line.lineTotal.k # "undefined" /\ Less(line.lineTotal, Num(0)),
            Entry("ERR_NEGATIVE_LINE_TOTAL", "error"))
    \o When(line.lineTotal.k # "undefined" /\ MoreThanUnits(line.lineTotal, 10000000),
            Entry("WARN_SUSPICIOUSLY_LARGE_AMOUNT", "warning"))
    \o When(line.lineTotal = Num(0)
            /\ line.quantity.k # "undefined" /\ Less(Num(0), line.quantity)
            /\ line.unitPrice.k # "undefined" /\ Less(Num(0), line.unitPrice),
            Entry("WARN_ZERO_LINE_TOTAL", "warning"))
    \o (IF line.vatRate.k # "undefined"
        THEN IF Less(line.vatRate, Num(0)) \/ Less(Num(100000), line.vatRate)
             THEN <<Entry("ERR_INVALID_VAT_RATE", "error")>>
             ELSE When(Less(Num(0), line.vatRate) /\ Less(line.vatRate, Num(1000)),
                       Entry("WARN_VAT_RATE_FORMAT", "warning"))
        ELSE <<>>)

RECURSIVE allLineQualityEntries(_)
allLineQualityEntries(lines) ==
    IF lines = <<>> THEN <<>>
    ELSE allLineQualityEntries(SubSeq(lines, 1, Len(lines) - 1))
         \o lineQualityEntries(lines[Len(lines)])

totalQualityEntries(inv) ==
    IF inv.totalInclVat.k # "undefined"
    THEN When(Less(inv.totalInclVat, Num(0)), Entry("ERR_NEGATIVE_TOTAL", "error"))
         \o When(MoreThanUnits(inv.totalInclVat, 100000000),
                 Entry("WARN_SUSPICIOUSLY_LARGE_TOTAL", "warning"))
    ELSE <<>>

countryEntries(party) ==
    When(Truthy(party.address.countryCode)
         /\ toUpperCase(trim(party.address.countryCode.s)) \notin validCountryCodes,
         Entry("WARN_INVALID_COUNTRY_CODE", "warning"))

\* line.confidence < 0.4, in hundredths
lowConfidenceLines(lines) ==
    {i \in 1..Len(lines) : lines[i].confidence.k # "undefined" /\ Less(lines[i].confidence, Num(40))}

validateDataQuality(inv, fields) ==
    lowConfidenceEntries(fields, Len(criticalFields))
    \o When(Truthy(inv.invoiceNumber) /\ suspiciousInvoiceNumber(inv.invoiceNumber),
            Entry("WARN_SUSPICIOUS_INVOICE_NUMBER", "warning"))
    \o issueDateQualityEntries(inv)
    \o allLineQualityEntries(inv.lines)
    \o totalQualityEntries(inv)
    \o When(Truthy(inv.supplier.name) /\ suspiciousName(inv.supplier.name),
            Entry("WARN_SUSPICIOUS_SUPPLIER_NAME", "warning"))
    \o When(Truthy(inv.customer.name) /\ suspiciousName(inv.customer.name),
            Entry("WARN_SUSPICIOUS_CUSTOMER_NAME", "warning"))
    \o countryEntries(inv.supplier)
    \o countryEntries(inv.customer)
    \o When(lowConfidenceLines(inv.lines) # {}, Entry("WARN_LOW_CONFIDENCE_LINES", "warning"))

\* validateXSD: the one entry saying the schema validation is skipped
validateXSD == <<Entry("INFO_XSD_VALIDATION_SKIPPED", "warning")>>

\* errors.filter((e) => e.severity === severity)
Filter(list, severity) == SelectSeq(list, LAMBDA e : e.severity = severity)

buildValidationReportLosingLast(list) ==
    [errors |-> Filter(list, "error"),
     warnings |-> Filter(SubSeq(list, 1, Len(list) - 1), "warning"),
     isValid |-> Len(Filter(list, "error")) = 0]
buildValidationReport(list) ==
    [errors |-> Filter(list, "error"),
     warnings |-> Filter(list, "warning"),
     isValid |-> Len(Filter(list, "error")) = 0]

\* The deduction for one critical field, in hundredths
fieldDeduction(fields, field) ==
    IF HasMapping(fields, field)
    THEN IF FindMapping(fields, field).confidence < 50 THEN 15
         ELSE IF FindMapping(fields, field).confidence < 70 THEN 5
         ELSE 0
    ELSE 10

RECURSIVE fieldDeductions(_, _)
fieldDeductions(fields, n) ==
    IF n = 0 THEN 0
    ELSE fieldDeductions(fields, n - 1) + fieldDeduction(fields, criticalFields[n])

Max(a, b) == IF a > b THEN a ELSE b
Min(a, b) == IF a < b THEN a ELSE b

levelOf(score) ==
    IF score >= 90 THEN "excellent"
    ELSE IF score >= 70 THEN "good"
    ELSE IF score >= 50 THEN "fair"
    ELSE "poor"

\* The score as the decimal number the subtractions denote, in hundredths
\* (the rounding error of the binary floating-point subtractions is left out).
calculateDataQualityScore(inv, fields, validationErrors) ==
    LET score == 100
                 - fieldDeductions(fields, Len(criticalFields))
                 - Len(Filter(validationErrors, "error")) * 10
                 - Len(Filter(validationErrors, "warning")) * 2
                 - (IF Truthy(inv.invoiceNumber)
                       /\ (toUpperCase(inv.invoiceNumber.s) = UNKNOWN \/ Len(inv.invoiceNumber.s) < 3)
                    THEN 10 ELSE 0)
        clamped == Max(0, Min(100, score))
    IN  [score |-> clamped, level |-> levelOf(clamped)]

----------------------------------------------------------------------------
(* AI enhancer: merge (src/parser/ai.ts 220-383) *)

\* A regular expression of digits and literal characters: "d" in the pattern
\* stands for \d.  MatchAt: the pattern matches at position i of str.
MatchAt(str, i, pattern) ==
    /\ i + Len(pattern) - 1 <= Len(str)
    /\ \A j \in 1..Len(pattern) :
          IF pattern[j] = "d" THEN str[i + j - 1] \in Digits ELSE str[i + j - 1] = pattern[j]
Matches(str, pattern) == \E i \in 1..Len(str) : MatchAt(str, i, pattern)
\* the leftmost match, as str.match returns it
MatchOf(str, pattern) ==
    LET i == CHOOSE i \in 1..Len(str) :
                 MatchAt(str, i, pattern) /\ \A h \in 1..(i - 1) : ~MatchAt(str, h, pattern)
    IN  SubSeq(str, i, i + Len(pattern) - 1)

YearFirst == <<"d","d","d","d","-","d","d","-","d","d">>
DaySlash == <<"d","d","/","d","d","/","d","d","d","d">>
DayDash == <<"d","d","-","d","d","-","d","d","d","d">>
DayDot == <<"d","d",".","d","d",".","d","d","d","d">>

\* The string `${match[3]}-${match[2]}-${match[1]}` of a day-first match
DayFirstToIso(m) == SubSeq(m, 7, 10) \o <<"-">> \o SubSeq(m, 4, 5) \o <<"-">> \o SubSeq(m, 1, 2)

parseDate(v) ==
    IF ~Truthy(v) \/ v = Str(<<"n","u","l","l">>) THEN Undefined
    ELSE IF NewDate(v) # InvalidDate THEN NewDate(v)
    ELSE IF Matches(v.s, YearFirst) THEN NewDate(Str(MatchOf(v.s, YearFirst)))
    ELSE IF Matches(v.s, DaySlash) THEN NewDate(Str(DayFirstToIso(MatchOf(v.s, DaySlash))))
    ELSE IF Matches(v.s, DayDash) THEN NewDate(Str(DayFirstToIso(MatchOf(v.s, DayDash))))
    ELSE IF Matches(v.s, DayDot) THEN NewDate(Str(DayFirstToIso(MatchOf(v.s, DayDot))))
    ELSE Undefined

mergeParty(existing, aiData) ==
    IF aiData.k # "object" THEN existing
    ELSE IF existing.k # "object" THEN aiData
    ELSE [k |-> "object",
          name |-> Or(aiData.name, existing.name),
          address |-> [k |-> "object",
                       street |-> Or(aiData.address.street, existing.address.street),
                       city |-> Or(aiData.address.city, existing.address.city),
                       postalCode |-> Or(aiData.address.postalCode, existing.address.postalCode),
                       countryCode |-> Or(aiData.address.countryCode, existing.address.countryCode)],
          vatNumber |-> Or(aiData.vatNumber, existing.vatNumber),
          kboNumber |-> Or(aiData.kboNumber, existing.kboNumber)]

mergeAIResultsOnlyFillingGaps(existing, aiData) ==
    [existing EXCEPT
        !.invoiceNumber = Or(existing.invoiceNumber, aiData.invoiceNumber),
        !.issueDate = IF Truthy(aiData.issueDate) THEN parseDate(aiData.issueDate) ELSE existing.issueDate,
        !.dueDate = IF Truthy(aiData.dueDate) THEN parseDate(aiData.dueDate) ELSE existing.dueDate,
        !.currency = Or(Or(aiData.currency, existing.currency), Str(EUR)),
        !.supplier = mergeParty(existing.supplier, aiData.supplier),
        !.customer = mergeParty(existing.customer, aiData.customer),
        !.lines = IF Len(aiData.lines) > 0 THEN aiData.lines ELSE existing.lines,
        !.subtotalExclVat = IF ~IsNullish(aiData.subtotalExclVat) THEN aiData.subtotalExclVat ELSE existing.subtotalExclVat,
        !.vatTotal = IF ~IsNullish(aiData.vatTotal) THEN aiData.vatTotal ELSE existing.vatTotal,
        !.totalInclVat = IF ~IsNullish(aiData.totalInclVat) THEN aiData.totalInclVat ELSE existing.totalInclVat,
        !.iban = Or(aiData.iban, existing.iban),
        !.paymentReference = Or(aiData.paymentReference, existing.paymentReference)]
mergeAIResults(existing, aiData) ==
    [existing EXCEPT
        !.invoiceNumber = Or(aiData.invoiceNumber, existing.invoiceNumber),
        !.issueDate = IF Truthy(aiData.issueDate) THEN parseDate(aiData.issueDate) ELSE existing.issueDate,
        !.dueDate = IF Truthy(aiData.dueDate) THEN parseDate(aiData.dueDate) ELSE existing.dueDate,
        !.currency = Or(Or(aiData.currency, existing.currency), Str(EUR)),
        !.supplier = mergeParty(existing.supplier, aiData.supplier),
        !.customer = mergeParty(existing.customer, aiData.customer),
        !.lines = IF Len(aiData.lines) > 0 THEN aiData.lines ELSE existing.lines,
        !.subtotalExclVat = IF ~IsNullish(aiData.subtotalExclVat) THEN aiData.subtotalExclVat ELSE existing.subtotalExclVat,
        !.vatTotal = IF ~IsNullish(aiData.vatTotal) THEN aiData.vatTotal ELSE existing.vatTotal,
        !.totalInclVat = IF ~IsNullish(aiData.totalInclVat) THEN aiData.totalInclVat ELSE existing.totalInclVat,
        !.iban = Or(aiData.iban, existing.iban),
        !.paymentReference = Or(aiData.paymentReference, existing.paymentReference)]

\* A MappingField; the confidence is in hundredths (0.9 is 90).
MappingField(field, value, source, confidence) ==
    [field |-> field, value |-> value, source |-> source, confidence |-> confidence]

AiGemini == "ai-gemini"

aiFields(aiData, source) ==
    When(Truthy(aiData.invoiceNumber), MappingField("invoiceNumber", aiData.invoiceNumber, source, 90))
    \o When(Truthy(aiData.issueDate), MappingField("issueDate", aiData.issueDate, source, 90))
    \o When(Truthy(aiData.supplier.name), MappingField("supplier.name", aiData.supplier.name, source, 90))
    \o When(Truthy(aiData.customer.name), MappingField("customer.name", aiData.customer.name, source, 90))

FieldsOf(list) == {list[i].field : i \in 1..Len(list)}

\* existing.forEach: a field is pushed unless its path is in processedFields,
\* and its path is added to processedFields.
RECURSIVE keepUnprocessed(_, _)
keepUnprocessed(existing, processedFields) ==
    IF existing = <<>> THEN <<>>
    ELSE IF Head(existing).field \in processedFields
    THEN keepUnprocessed(Tail(existing), processedFields)
    ELSE <<Head(existing)>>
         \o keepUnprocessed(Tail(existing), processedFields \cup {Head(existing).field})

mergeAIMappingFieldsAppending(existing, aiData, source) == aiFields(aiData, source) \o existing
mergeAIMappingFields(existing, aiData, source) ==
    aiFields(aiData, source) \o keepUnprocessed(existing, FieldsOf(aiFields(aiData, source)))

----------------------------------------------------------------------------
(* Inputs *)

MaxLines == 2
MaxVatLines == 4

SeqsUpTo(S, n) == UNION {[1..k -> S] : k \in 0..n}

Consulting == <<"C","o","n","s","u","l","t","i","n","g">>

\* Lines with every subset of quantity, unitPrice, lineTotal and vatRate set
\* (3 x 1.665 = 4.995 is a tie; the explicit line total 0.53 is inconsistent
\* with it; the VAT rate 20.995 % is not yet rounded), and then: quantity 0,
\* an explicit line total 0, a product below half a cent, the line of an AI
\* response that holds null everywhere, and a negative unit price.
LineDomain ==
    {Line(Str(Consulting), q, p, r, t) :
        q \in {Undefined, Num(3000)},
        p \in {Undefined, Num(1665)},
        r \in {Undefined, Num(20995)},
        t \in {Undefined, Num(530)}}
    \cup {Line(Str(Consulting), Num(0), Num(1665), Undefined, Undefined),
          Line(Str(Consulting), Num(3000), Num(1665), Num(21000), Num(0)),
          Line(Str(Consulting), Num(1000), Num(4), Undefined, Undefined),
          Line(Undefined, Null, Null, Null, Null),
          Line(Str(<<" ">>), Num(3000), Num(0 - 335), Num(0), Undefined)}

\* Lines whose VAT is not a whole number of cents: 0.53 at 20 % is 0.106,
\* 3 x 1.665 = 5.00 at 21 % is 1.05, 0.50 at 21 % is 0.105.
VatLineDomain ==
    {Line(Str(Consulting), Undefined, Undefined, Num(20000), Num(530)),
     Line(Str(Consulting), Num(3000), Num(1665), Num(21000), Undefined),
     Line(Str(Consulting), Num(1000), Num(500), Num(21000), Undefined)}

TotalsDomain ==
    {<<Undefined, Undefined, Undefined>>,
     <<Num(0), Undefined, Num(0)>>,
     <<Undefined, Num(0), Undefined>>,
     <<Num(1234), Num(259), Num(99990)>>,
     <<Num(5000), Null, Undefined>>}

VatNumberDomain ==
    {Undefined,
     Str(<<>>),
     Str(<<"B","E","0","1","2","3","4","5","6","7","8","9">>),
     Str(<<"b","e"," ","0","1","2","3","4","5","6","7","8","9">>),
     Str(<<"0","1","2","3","4","5","6","7","8","9">>),
     Str(<<"1","2","3","4","5","6","7","8","9","b","0","1">>),
     Str(<<"1","2","3","4","5">>),
     Str(<<"n","l","1","2","3">>)}

IsoDay == <<"2","0","2","4","-","0","3","-","1","5">>
NotADay == <<"1","5","/","0","3","/","2","0","2","4">>

DateDomain == {Undefined, DateOf(20240315), DateOf(20270101), InvalidDate}

CurrencyDomain == {Undefined, Str(<<"e","u","r">>), Str(<<"U","S","D">>)}

IbanDomain == {Undefined, Str(<<"b","e","6","8"," ","5","3","9","0">>)}

Acme == <<"A","c","m","e">>

PartyDomain ==
    {NoParty} \cup {Party(Str(Acme), NoAddress, v) : v \in VatNumberDomain}

Money(inv, lines, totals) ==
    [inv EXCEPT !.lines = lines, !.subtotalExclVat = totals[1],
                !.vatTotal = totals[2], !.totalInclVat = totals[3]]

\* Invoices as the extractor or the AI merge hand them to the normalizer: the
\* header fields vary over an invoice with one line, and the lines and totals
\* vary over an invoice without header fields.
OneLineInvoice ==
    [EmptyInvoice EXCEPT !.lines = <<Line(Str(Consulting), Num(3000), Num(1665), Num(20995), Undefined)>>]

HeaderInvoices ==
    {[OneLineInvoice EXCEPT !.currency = c, !.issueDate = d, !.dueDate = e,
                          !.supplier = s, !.customer = cu, !.iban = i] :
        c \in CurrencyDomain, d \in DateDomain, e \in {Undefined, DateOf(20240415)},
        s \in PartyDomain, cu \in {NoParty, Party(Undefined, NoAddress, Str(<<"1","2","3","4","5","6","7","8","9","b","0","1">>))},
        i \in IbanDomain}

MoneyInvoices ==
    {Money(EmptyInvoice, lines, totals) :
        lines \in SeqsUpTo(LineDomain, MaxLines), totals \in TotalsDomain}

VatInvoices ==
    {Money(EmptyInvoice, lines, <<Undefined, Undefined, Undefined>>) :
        lines \in SeqsUpTo(VatLineDomain, MaxVatLines)}

Invoices == HeaderInvoices \cup MoneyInvoices \cup VatInvoices

----------------------------------------------------------------------------
(* Convert handler, from the normalizer on (src/unnamed/part_001 208-219) *)

NoResponse == [k |-> "none"]
NoResult == [k |-> "none"]

IdleRound ==
    /\ roundIn = 0
    /\ roundOut = 0

IdleAI ==
    /\ mappingFields = <<>>
    /\ geminiKey = FALSE
    /\ mimeType = ""
    /\ extractedText = ""
    /\ requests = <<>>
    /\ aiFailures = {}
    /\ aiResponse = NoResponse
    /\ aiResult = NoResult

NoReport == [k |-> "none"]
NoScore == [k |-> "none"]

IdleReport ==
    /\ dataQualityErrors = <<>>
    /\ report = NoReport
    /\ qualityScore = NoScore

\* The anon_id cookies one client sends, and the convert requests it can
\* have in flight at once.
MaxConcurrent == 2
AnonIds == {"anon-1", "anon-2"}
Slots == 1..MaxConcurrent

\* No AnonUsage row for the anon_id.
NoUsage == [exists |-> FALSE, successCount |-> 0, totalCount |-> 0, lastSeen |-> 0]

\* A slot with no request in flight; status is that of its last response.
NoRequest(code) ==
    [at |-> "idle", anonId |-> "none", anonUsage |-> NoUsage, hasQuota |-> FALSE,
     isSuccess |-> FALSE, existing |-> FALSE, status |-> code]

IdleQuota ==
    /\ anonUsage = [a \in AnonIds |-> NoUsage]
    /\ convertReq = [s \in Slots |-> NoRequest(0)]
    /\ now = 0
    /\ processedToday = 0
    /\ uploadsLeft = 0

Users == {"user-1", "user-2"}

NoPayment == [exists |-> FALSE, isUnlimited |-> FALSE, creditsBalance |-> 0]
NoConversion == [exists |-> FALSE, ownerType |-> "ANON", ownerId |-> "none", success |-> FALSE,
                 fullXml |-> "", downloaded |-> FALSE]
NoDownload == [at |-> "idle"]
NoDownloadResponse == [status |-> 0, xml |-> ""]

IdleDownload ==
    /\ payment = [u \in Users |-> NoPayment]
    /\ conversion = NoConversion
    /\ downloadReq = NoDownload
    /\ balanceBefore = [u \in Users |-> 0]
    /\ downloadResponse = NoDownloadResponse

MolliePaymentIds == {"tr_1", "tr_2", "tr_3"}

NoBilling(code) == [at |-> "idle", status |-> code]

IdleBilling ==
    /\ paymentRows = <<>>
    /\ billingReq = [s \in Slots |-> NoBilling(0)]
    /\ credited = [id \in MolliePaymentIds |-> 0]
    /\ billingLeft = 0

NoUpload == [kind |-> "none"]

IdleUpload == upload = NoUpload

IdleAccounts == IdleQuota /\ IdleDownload /\ IdleBilling /\ IdleUpload

Idle == IdleRound /\ IdleAI /\ IdleReport /\ IdleAccounts

Init ==
    /\ pc = "normalize"
    /\ invoice \in Invoices
    /\ before = invoice
    /\ normalized = EmptyInvoice
    /\ renormalized = EmptyInvoice
    /\ errors = <<>>
    /\ lineChecks = <<>>
    /\ ubl = NoDocument
    /\ status = 0
    /\ Idle

\* const normalizedInvoice = normalizeInvoice(finalInvoice)
Normalize ==
    /\ pc = "normalize"
    /\ normalized' = normalizeInvoice(invoice)
    /\ invoice' = normalizeInvoiceArgument(invoice)
    /\ pc' = "convert"
    /\ UNCHANGED <<before, renormalized, errors, lineChecks, ubl, status, roundVars, aiVars, reportVars, accountVars>>

\* const ublXml = convertToUBL(normalizedInvoice); a throw ends the handler in
\* its catch block with status 500.
ConvertToUBL ==
    /\ pc = "convert"
    /\ ubl' = convertToUBL(normalized)
    /\ IF convertToUBL(normalized) = TypeError
       THEN pc' = "done" /\ status' = 500
       ELSE pc' = "validate" /\ status' = status
    /\ UNCHANGED <<invoice, before, normalized, renormalized, errors, lineChecks, roundVars, aiVars, reportVars, accountVars>>

\* const allValidationErrors = [...businessRuleErrors, ...dataQualityErrors, ...xsdWarnings]
allValidationErrors(inv, fields) ==
    validateBusinessRules(inv) \o validateDataQuality(inv, fields) \o validateXSD

\* The validators, the report and the quality score (lines 215-228), and the
\* response.
Validate ==
    /\ pc = "validate"
    /\ errors' = validateBusinessRules(normalized)
    /\ lineChecks' = [i \in 1..Len(normalized.lines) |->
                        IF lineIsChecked(normalized.lines[i])
                        THEN Num(lineCalculatedTotal(normalized.lines[i]))
                        ELSE Undefined]
    /\ dataQualityErrors' = validateDataQuality(normalized, mappingFields)
    /\ report' = buildValidationReport(allValidationErrors(normalized, mappingFields))
    /\ qualityScore' = calculateDataQualityScore(normalized, mappingFields,
                                                 allValidationErrors(normalized, mappingFields))
    /\ pc' = "done"
    /\ status' = 200
    /\ UNCHANGED <<invoice, before, normalized, renormalized, ubl, roundVars, aiVars, accountVars>>

\* normalizeInvoice applied to its own result
NormalizeAgain ==
    /\ pc = "convert"
    /\ before' = normalized
    /\ renormalized' = normalizeInvoice(normalized)
    /\ normalized' = normalizeInvoiceArgument(normalized)
    /\ invoice' = normalizeInvoiceArgument(invoice)
    /\ pc' = "renormalized"
    /\ UNCHANGED <<errors, lineChecks, ubl, status, roundVars, aiVars, reportVars, accountVars>>

vars == <<pipelineVars, roundVars, aiVars, reportVars, accountVars>>

Next == Normalize \/ ConvertToUBL \/ Validate
Spec == Init /\ [][Next]_vars

NextNormalize == Normalize \/ NormalizeAgain
SpecNormalize == Init /\ [][NextNormalize]_vars

----------------------------------------------------------------------------
(* Update handler (src/unnamed/part_003) *)

Inv1 == <<"I","N","V","-","1">>

\* req.body.normalizedInvoice as JSON.parse delivers it: a date is a string
\* (JSON has no Date), a field is absent or null.
UpdateBodies ==
    {[EmptyInvoice EXCEPT !.invoiceNumber = n, !.issueDate = d, !.dueDate = e,
                          !.lines = lines, !.totalInclVat = t] :
        n \in {Undefined, Str(Inv1)},
        d \in {Undefined, Null, Str(IsoDay), Str(NotADay)},
        e \in {Undefined, Str(IsoDay)},
        lines \in SeqsUpTo({Line(Str(Consulting), Num(3000), Num(1665), Num(21000), Num(5000))}, 1),
        t \in {Undefined, Num(6050)}}

InitUpdate ==
    /\ pc = "update"
    /\ invoice \in UpdateBodies
    /\ before = invoice
    /\ normalized = EmptyInvoice
    /\ renormalized = EmptyInvoice
    /\ errors = <<>>
    /\ lineChecks = <<>>
    /\ ubl = NoDocument
    /\ status = 0
    /\ Idle

\* The handler: 405 for a method other than POST, 400 without an invoice in
\* the body, else convertToUBL and validateBusinessRules on the body's invoice
\* as received, 200 with the result, and 500 from the catch block when
\* convertToUBL throws.
UpdateHandler ==
    /\ pc = "update"
    /\ \E method \in {"POST", "GET"}, hasInvoice \in BOOLEAN :
          IF method # "POST"
          THEN status' = 405 /\ UNCHANGED <<ubl, errors, report>>
          ELSE IF ~hasInvoice
          THEN status' = 400 /\ UNCHANGED <<ubl, errors, report>>
          ELSE /\ ubl' = convertToUBL(invoice)
               /\ IF convertToUBL(invoice) = TypeError
                  THEN status' = 500 /\ UNCHANGED <<errors, report>>
                  ELSE /\ status' = 200
                       /\ errors' = validateBusinessRules(invoice)
                       /\ report' = buildValidationReport(validateBusinessRules(invoice) \o validateXSD)
    /\ pc' = "done"
    /\ UNCHANGED <<invoice, before, normalized, renormalized, lineChecks, roundVars, aiVars,
                   dataQualityErrors, qualityScore, accountVars>>

SpecUpdate == InitUpdate /\ [][UpdateHandler]_vars

----------------------------------------------------------------------------
(* roundTo2Decimals on its own *)

MaxAmount == 1010

InitRound ==
    /\ pc = "round"
    /\ roundIn \in (0 - MaxAmount)..MaxAmount
    /\ roundOut = 0
    /\ invoice = EmptyInvoice
    /\ before = EmptyInvoice
    /\ normalized = EmptyInvoice
    /\ renormalized = EmptyInvoice
    /\ errors = <<>>
    /\ lineChecks = <<>>
    /\ ubl = NoDocument
    /\ status = 0
    /\ IdleAI
    /\ IdleReport
    /\ IdleAccounts

Round ==
    /\ pc = "round"
    /\ roundOut' = roundTo2Decimals(roundIn, 1000)
    /\ pc' = "rounded"
    /\ UNCHANGED <<roundIn, invoice, before, normalized, renormalized, errors, lineChecks, ubl, status, aiVars, reportVars, accountVars>>

SpecRound == InitRound /\ [][Round]_vars

----------------------------------------------------------------------------
(* AI enhancer: parseWithAI and callGeminiAPI (src/parser/ai.ts 7-131, 392-609) *)

MaxFields == 3

Old1 == <<"O","L","D","-","1">>
Old9 == <<"O","L","D","-","9">>
New2 == <<"N","E","W","-","2">>
Globex == <<"G","l","o","b","e","x">>
Brussels == <<"B","r","u","s","s","e","l","s">>
Garbage == <<"s","o","o","n">>
NoSuchDay == <<"2","0","2","4","-","1","3","-","4","5">>

PdfText == "pdf-text"

\* Entries of the initial pass: two for invoiceNumber, one each for issueDate
\* and supplier.name, and one for a path the AI never reports.
EntryDomain ==
    {MappingField("invoiceNumber", Str(Old1), PdfText, 60),
     MappingField("invoiceNumber", Str(Old9), PdfText, 80),
     MappingField("issueDate", DateOf(20240301), PdfText, 50),
     MappingField("supplier.name", Str(Acme), PdfText, 70),
     MappingField("currency", Str(EUR), PdfText, 50)}

CandidateList ==
    <<MappingField("invoiceNumber", Str(Old1), PdfText, 60),
      MappingField("currency", Str(EUR), PdfText, 50)>>

\* A candidate with every header field, both parties, a line and the totals set.
FullInvoice ==
    [invoiceNumber |-> Str(Old1), issueDate |-> DateOf(20240301), dueDate |-> DateOf(20240401),
     currency |-> Str(<<"G","B","P">>),
     supplier |-> Party(Str(Acme), Address(Str(<<"M","a","i","n">>), Str(Brussels), Str(<<"1","0","0","0">>), Str(BE)),
                        Str(<<"B","E","0","1","2","3","4","5","6","7","8","9">>)),
     customer |-> Party(Str(Globex), NoAddress, Undefined),
     paymentReference |-> Str(<<"R","E","F">>), iban |-> Str(<<"B","E","6","8">>),
     lines |-> <<Line(Str(Consulting), Num(1000), Num(1000000), Num(21000), Num(1000000))>>,
     subtotalExclVat |-> Num(1000000), vatTotal |-> Num(210000), totalInclVat |-> Num(1210000)]

AiStrings == {Undefined, Null, Str(<<>>)}
AiDates == {Undefined, Null, Str(IsoDay), Str(NotADay), Str(Garbage), Str(NoSuchDay), Str(<<"n","u","l","l">>)}
AiParties ==
    {NoParty,
     Party(Str(Globex), NoAddress, Undefined),
     Party(Null, Address(Null, Str(<<"G","e","n","t">>), Null, Null), Null)}

\* Objects the completion service answers with, one group of fields varying
\* at a time: the four fields that get a mapping entry, the other strings and
\* the due date, the three totals, the lines.
NameResponses ==
    {[EmptyInvoice EXCEPT !.invoiceNumber = n, !.issueDate = d, !.supplier = s, !.customer = c] :
        n \in AiStrings \cup {Str(New2)}, d \in AiDates, s \in AiParties,
        c \in {NoParty, Party(Str(Acme), NoAddress, Undefined)}}

ScalarResponses ==
    {[EmptyInvoice EXCEPT !.currency = c, !.iban = i, !.paymentReference = r, !.dueDate = d] :
        c \in AiStrings \cup {Str(<<"U","S","D">>)},
        i \in {Undefined, Str(<<>>), Str(<<"N","L","9","1">>)},
        r \in {Undefined, Str(<<>>), Str(<<"+","+","+">>)},
        d \in {Undefined, Str(IsoDay), Str(Garbage)}}

TotalsResponses ==
    {[EmptyInvoice EXCEPT !.subtotalExclVat = s, !.vatTotal = v, !.totalInclVat = t,
                          !.lines = lines] :
        s \in {Undefined, Null, Num(0), Num(2000)},
        v \in {Undefined, Null, Num(0), Num(420)},
        t \in {Undefined, Num(0), Num(2420)},
        lines \in {<<>>, <<Line(Str(Consulting), Null, Num(2000), Null, Null)>>}}

AIResponses == NameResponses \cup ScalarResponses \cup TotalsResponses

\* For the lists of up to MaxFields entries: the responses that differ in
\* which of the four paths they report.
PathResponses ==
    {[EmptyInvoice EXCEPT !.invoiceNumber = n, !.issueDate = d, !.supplier = s, !.customer = c] :
        n \in {Undefined, Str(<<>>), Str(New2)}, d \in {Undefined, Str(IsoDay)},
        s \in {NoParty, Party(Str(Globex), NoAddress, Undefined)},
        c \in {NoParty, Party(Str(Acme), NoAddress, Undefined)}}

\* <<candidate invoice, candidate list, response>>
MergeInputs ==
    {<<inv, CandidateList, ai>> : inv \in {EmptyInvoice, FullInvoice}, ai \in AIResponses}
    \cup {<<FullInvoice, list, ai>> : list \in SeqsUpTo(EntryDomain, MaxFields), ai \in PathResponses}

\* JSON values that are not objects (null, 0, "", false) are falsy.
ParsedObject(v) == [k |-> "object", v |-> v]
ParsedNull == [k |-> "null"]

FlowResponses ==
    {ParsedNull,
     ParsedObject(EmptyInvoice),
     ParsedObject([EmptyInvoice EXCEPT !.invoiceNumber = Str(New2), !.issueDate = Str(IsoDay)])}

IdlePipeline ==
    /\ before = invoice
    /\ normalized = EmptyInvoice
    /\ renormalized = EmptyInvoice
    /\ errors = <<>>
    /\ lineChecks = <<>>
    /\ ubl = NoDocument
    /\ status = 0

Pdf == "application/pdf"
Xlsx == "application/vnd.openxmlformats-officedocument.spreadsheetml.sheet"

\* parseWithAI as the convert handler calls it, after parsePDF or parseXLSX.
InitAI ==
    /\ pc = "ai:start"
    /\ invoice \in {EmptyInvoice, FullInvoice}
    /\ mappingFields \in {<<>>, CandidateList}
    /\ geminiKey \in BOOLEAN
    /\ mimeType \in {Pdf, Xlsx}
    /\ extractedText = ""
    /\ requests = <<>>
    /\ aiFailures = {}
    /\ aiResponse = NoResponse
    /\ aiResult = NoResult
    /\ IdlePipeline
    /\ IdleRound
    /\ IdleReport
    /\ IdleAccounts

\* mergeAIResults and mergeAIMappingFields on their own: a response has been
\* parsed.
InitMerge ==
    /\ pc = "ai:merge"
    /\ \E in \in MergeInputs :
          /\ invoice = in[1]
          /\ mappingFields = in[2]
          /\ aiResponse = ParsedObject(in[3])
    /\ geminiKey = TRUE
    /\ mimeType = Pdf
    /\ extractedText = "text"
    /\ requests = <<[attachment |-> TRUE, prompt |-> "document"]>>
    /\ aiFailures = {}
    /\ aiResult = NoResult
    /\ IdlePipeline
    /\ IdleRound
    /\ IdleReport
    /\ IdleAccounts

FallbackDroppingFields == [invoice |-> invoice, mappingFields |-> <<>>, aiUsed |-> FALSE]

\* The catch block of parseWithAI (and the return without a key): the
\* candidate comes back as it was given.
Fallback == [invoice |-> invoice, mappingFields |-> mappingFields, aiUsed |-> FALSE]

FailWith(step) ==
    /\ aiFailures' = aiFailures \cup {step}
    /\ aiResult' = Fallback
    /\ pc' = "ai:returned"

\* Lines 19-38: without GEMINI_API_KEY the candidate is returned at once.
AIStart ==
    /\ pc = "ai:start"
    /\ IF ~geminiKey
       THEN aiResult' = Fallback /\ pc' = "ai:returned"
       ELSE aiResult' = aiResult /\ pc' = "ai:extract"
    /\ UNCHANGED <<mappingFields, geminiKey, mimeType, extractedText, requests, aiFailures, aiResponse>>
    /\ UNCHANGED <<invoice, before, normalized, renormalized, errors, lineChecks, ubl, status, roundVars, reportVars, accountVars>>

\* Lines 47-73: pdf-parse or xlsx yields text, possibly none; a throw is
\* caught here and the function goes on without text.
AIExtractText ==
    /\ pc = "ai:extract"
    /\ \E outcome \in {"throws", "empty", "text"} :
          /\ extractedText' = IF outcome = "text" THEN "text" ELSE ""
          /\ aiFailures' = IF outcome = "throws" THEN aiFailures \cup {"text extraction"} ELSE aiFailures
    /\ pc' = "ai:request"
    /\ UNCHANGED <<mappingFields, geminiKey, mimeType, requests, aiResponse, aiResult>>
    /\ UNCHANGED <<invoice, before, normalized, renormalized, errors, lineChecks, ubl, status, roundVars, reportVars, accountVars>>

\* callGeminiAPI, lines 425-578: the first request carries the document for a
\* PDF.  fetch rejects, or answers with a status; on a status that is not 2xx
\* the text-only retry follows for a PDF with extracted text, else the throw.
AIRequest ==
    /\ pc = "ai:request"
    /\ requests' = Append(requests, [attachment |-> (mimeType = Pdf),
                                     prompt |-> IF mimeType = Pdf THEN "document" ELSE "text"])
    /\ \E outcome \in {"rejects", "not ok", "ok"} :
          CASE outcome = "rejects" -> FailWith("http call")
            [] outcome = "not ok" ->
                 IF mimeType = Pdf /\ extractedText # ""
                 THEN /\ aiFailures' = aiFailures \cup {"status"}
                      /\ pc' = "ai:retry"
                      /\ aiResult' = aiResult
                 ELSE FailWith("status")
            [] outcome = "ok" ->
                 /\ pc' = "ai:read"
                 /\ UNCHANGED <<aiFailures, aiResult>>
    /\ UNCHANGED <<mappingFields, geminiKey, mimeType, extractedText, aiResponse>>
    /\ UNCHANGED <<invoice, before, normalized, renormalized, errors, lineChecks, ubl, status, roundVars, reportVars, accountVars>>

\* Lines 527-575: the retry with the text-only prompt.  A status that is not
\* 2xx falls through to the throw of line 577.
AIRetry ==
    /\ pc = "ai:retry"
    /\ requests' = Append(requests, [attachment |-> FALSE, prompt |-> "text-only"])
    /\ \E outcome \in {"rejects", "not ok", "ok"} :
          CASE outcome = "rejects" -> FailWith("retry http call")
            [] outcome = "not ok" -> FailWith("retry status")
            [] outcome = "ok" ->
                 /\ pc' = "ai:read"
                 /\ UNCHANGED <<aiFailures, aiResult>>
    /\ UNCHANGED <<mappingFields, geminiKey, mimeType, extractedText, aiResponse>>
    /\ UNCHANGED <<invoice, before, normalized, renormalized, errors, lineChecks, ubl, status, roundVars, reportVars, accountVars>>

\* Lines 562-574 and 580-608: the body of a 2xx response.  No text in it, or
\* text that JSON.parse rejects, ends in a throw; else the parsed value is
\* returned to parseWithAI.
AIReadResponse ==
    /\ pc = "ai:read"
    /\ \/ FailWith("empty response") /\ aiResponse' = aiResponse
       \/ FailWith("json parsing") /\ aiResponse' = aiResponse
       \/ \E parsed \in FlowResponses :
             /\ aiResponse' = parsed
             /\ pc' = "ai:merge"
             /\ UNCHANGED <<aiFailures, aiResult>>
    /\ UNCHANGED <<mappingFields, geminiKey, mimeType, extractedText, requests>>
    /\ UNCHANGED <<invoice, before, normalized, renormalized, errors, lineChecks, ubl, status, roundVars, reportVars, accountVars>>

\* Lines 93-117: a falsy response throws; else both merges and aiUsed = true.
AIMerge ==
    /\ pc = "ai:merge"
    /\ IF aiResponse.k # "object"
       THEN FailWith("no response")
       ELSE /\ aiResult' = [invoice |-> mergeAIResults(invoice, aiResponse.v),
                            mappingFields |-> mergeAIMappingFields(mappingFields, aiResponse.v, AiGemini),
                            aiUsed |-> TRUE]
            /\ pc' = "ai:returned"
            /\ aiFailures' = aiFailures
    /\ UNCHANGED <<mappingFields, geminiKey, mimeType, extractedText, requests, aiResponse>>
    /\ UNCHANGED <<invoice, before, normalized, renormalized, errors, lineChecks, ubl, status, roundVars, reportVars, accountVars>>

NextAI == AIStart \/ AIExtractText \/ AIRequest \/ AIRetry \/ AIReadResponse \/ AIMerge
SpecAI == InitAI /\ [][NextAI]_vars

SpecMerge == InitMerge /\ [][AIMerge]_vars

----------------------------------------------------------------------------
(* Convert handler on inputs for the data-quality checker *)

LineWithConfidence(line, c) == [line EXCEPT !.confidence = c]

\* A sound line, then: a negative quantity; a negative quantity and price
\* with a negative line total; a null quantity; a VAT rate of 0.21 and of
\* 150; a line total 0 beside a quantity and a price; a line of confidence 0.3.
QualityLineDomain ==
    {Line(Str(Consulting), Num(2000), Num(5000), Num(21000), Num(10000)),
     Line(Str(Consulting), Num(0 - 1000), Num(5000), Num(21000), Undefined),
     Line(Str(Consulting), Num(0 - 2000), Num(0 - 5000), Undefined, Num(0 - 10000)),
     Line(Str(Consulting), Null, Num(5000), Num(0), Num(5000)),
     Line(Str(Consulting), Num(1000), Num(5000), Num(210), Num(5000)),
     Line(Str(Consulting), Num(1000), Num(5000), Num(150000), Num(5000)),
     Line(Str(Consulting), Num(2000), Num(5000), Undefined, Num(0)),
     LineWithConfidence(Line(Str(Consulting), Num(1000), Num(5000), Num(21000), Num(5000)), Num(30))}

NumberDomain ==
    {Undefined, Str(Inv1), Str(<<"u","n","k","n","o","w","n">>), Str(NA), Str(NULL),
     Str(<<" ","7"," ">>), Str(<<"4","2">>)}

QualityPartyDomain ==
    {NoParty,
     Party(Str(Acme), Address(Undefined, Undefined, Undefined, Str(<<"b","e">>)), Undefined),
     Party(Str(<<"T","e","s","t"," ","B","V">>), Address(Undefined, Undefined, Undefined, Str(<<"X","X">>)), Undefined),
     Party(Str(<<" ">>), NoAddress, Undefined)}

\* Entries of the extractors and of the AI merge, by confidence in hundredths
FieldListDomain ==
    {<<>>,
     <<MappingField("invoiceNumber", Str(Inv1), PdfText, 40),
       MappingField("issueDate", DateOf(20240315), PdfText, 55)>>,
     <<MappingField("invoiceNumber", Str(Inv1), PdfText, 60),
       MappingField("issueDate", DateOf(20240315), PdfText, 60)>>,
     <<MappingField("invoiceNumber", Str(Inv1), PdfText, 80),
       MappingField("invoiceNumber", Str(Inv1), PdfText, 30),
       MappingField("issueDate", DateOf(20240315), PdfText, 70),
       MappingField("supplier.name", Str(Acme), AiGemini, 90),
       MappingField("customer.name", Str(Acme), AiGemini, 90)>>,
     <<MappingField("invoiceNumber", Str(Inv1), PdfText, 50),
       MappingField("issueDate", DateOf(20240315), PdfText, 69),
       MappingField("supplier.name", Str(Acme), AiGemini, 90),
       MappingField("customer.name", Str(Acme), AiGemini, 90)>>}

\* The header fields vary over an invoice without lines, and the lines and
\* the grand total over an invoice with a sound header.
QualityHeaderInvoices ==
    {[EmptyInvoice EXCEPT !.invoiceNumber = n, !.issueDate = d, !.supplier = s, !.customer = c] :
        n \in NumberDomain,
        d \in {Undefined, DateOf(20240315), DateOf(20200101), DateOf(20280101), InvalidDate},
        s \in QualityPartyDomain,
        c \in {NoParty, Party(Str(Globex), Address(Undefined, Undefined, Undefined, Str(<<"N","L">>)), Undefined)}}

SoundHeader ==
    [EmptyInvoice EXCEPT
        !.invoiceNumber = Str(Inv1), !.issueDate = DateOf(20240315),
        !.supplier = Party(Str(Acme), Address(Undefined, Undefined, Undefined, Str(BE)), Undefined),
        !.customer = Party(Str(Globex), Address(Undefined, Undefined, Undefined, Str(<<"N","L">>)), Undefined)]

QualityLineInvoices ==
    {[SoundHeader EXCEPT !.lines = lines, !.totalInclVat = t] :
        lines \in SeqsUpTo(QualityLineDomain, MaxLines),
        t \in {Undefined, Num(0 - 1000)}}

QualityInputs ==
    {<<inv, fields>> : inv \in QualityHeaderInvoices, fields \in {<<>>, CandidateList}}
    \cup {<<inv, fields>> : inv \in QualityLineInvoices \cup {EmptyInvoice, SoundHeader},
                            fields \in FieldListDomain}

InitQuality ==
    /\ pc = "normalize"
    /\ \E in \in QualityInputs :
          /\ invoice = in[1]
          /\ mappingFields = in[2]
    /\ before = invoice
    /\ normalized = EmptyInvoice
    /\ renormalized = EmptyInvoice
    /\ errors = <<>>
    /\ lineChecks = <<>>
    /\ ubl = NoDocument
    /\ status = 0
    /\ geminiKey = FALSE
    /\ mimeType = Pdf
    /\ extractedText = ""
    /\ requests = <<>>
    /\ aiFailures = {}
    /\ aiResponse = NoResponse
    /\ aiResult = NoResult
    /\ IdleRound
    /\ IdleReport
    /\ IdleAccounts

SpecQuality == InitQuality /\ [][Next]_vars

----------------------------------------------------------------------------
(* Anonymous quota (src/lib/quota.ts 5-103) and the convert handler's use
   of it (src/unnamed/part_001 114-305) *)

FREE_CONVERSION_LIMIT == 3
MAX_UPLOADS_PER_DAY == 10

MaxRequests == 4
MaxUploads == 11
MaxDays == 1

\* checkAnonQuota's result, computed from the row it read before it updated
\* lastSeen: oneDayAgo is the clock minus one day.
rateLimited(usage, clock) ==
    usage.lastSeen > clock - 1 /\ usage.totalCount >= MAX_UPLOADS_PER_DAY

freeLeft(usage) == Max(0, FREE_CONVERSION_LIMIT - usage.successCount)

hasQuota(usage) == freeLeft(usage) > 0

\* prisma.anonUsage.create with successCount 0 and totalCount 0; lastSeen
\* defaults to the current time.
createdUsage(clock) ==
    [exists |-> TRUE, successCount |-> 0, totalCount |-> 0, lastSeen |-> clock]

\* The update incrementAnonUsage issues for an existing row.
incrementedUsage(usage, success, clock) ==
    [usage EXCEPT !.totalCount = @ + 1,
                  !.successCount = IF success THEN @ + 1 ELSE @,
                  !.lastSeen = clock]

\* The row incrementAnonUsage creates when it found none.
firstUsage(success, clock) ==
    [exists |-> TRUE, successCount |-> IF success THEN 1 ELSE 0, totalCount |-> 1,
     lastSeen |-> clock]

Respond(s, code) == convertReq' = [convertReq EXCEPT ![s] = NoRequest(code)]

QuotaUnchanged == UNCHANGED <<pipelineVars, roundVars, aiVars, reportVars, downloadVars, billingVars, parserVars>>

\* A request arrives: 405 unless POST; getOrCreateAnonId takes the cookie's
\* anon_id or makes a new one.
ConvertStart(s) ==
    /\ convertReq[s].at = "idle"
    /\ uploadsLeft > 0
    /\ uploadsLeft' = uploadsLeft - 1
    /\ \E method \in {"GET", "POST"}, a \in AnonIds :
          IF method # "POST"
          THEN Respond(s, 405)
          ELSE convertReq' = [convertReq EXCEPT ![s] =
                                 [NoRequest(0) EXCEPT !.at = "quota:find", !.anonId = a]]
    /\ UNCHANGED <<anonUsage, now, processedToday>>
    /\ QuotaUnchanged

\* checkAnonQuota: findUnique.
QuotaFind(s) ==
    /\ convertReq[s].at = "quota:find"
    /\ LET row == anonUsage[convertReq[s].anonId]
       IN convertReq' = [convertReq EXCEPT ![s].anonUsage = row,
                                           ![s].at = IF row.exists THEN "quota:update"
                                                     ELSE "quota:create"]
    /\ UNCHANGED <<anonUsage, now, processedToday, uploadsLeft>>
    /\ QuotaUnchanged

\* checkAnonQuota: create, when findUnique returned nothing. anonId is the
\* primary key: creating a second row throws, and the handler answers 500.
QuotaCreate(s) ==
    /\ convertReq[s].at = "quota:create"
    /\ LET a == convertReq[s].anonId
       IN IF anonUsage[a].exists
          THEN Respond(s, 500) /\ UNCHANGED anonUsage
          ELSE /\ anonUsage' = [anonUsage EXCEPT ![a] = createdUsage(now)]
               /\ convertReq' = [convertReq EXCEPT ![s].anonUsage = createdUsage(now),
                                                   ![s].at = "quota:update"]
    /\ UNCHANGED <<now, processedToday, uploadsLeft>>
    /\ QuotaUnchanged

\* checkAnonQuota: update lastSeen, then the result from the row read
\* earlier; the handler answers 429 when it is rate limited.
QuotaUpdate(s) ==
    /\ convertReq[s].at = "quota:update"
    /\ anonUsage' = [anonUsage EXCEPT ![convertReq[s].anonId].lastSeen = now]
    /\ IF rateLimited(convertReq[s].anonUsage, now)
       THEN Respond(s, 429)
       ELSE convertReq' = [convertReq EXCEPT ![s].hasQuota = hasQuota(convertReq[s].anonUsage),
                                             ![s].at = "upload"]
    /\ UNCHANGED <<now, processedToday, uploadsLeft>>
    /\ QuotaUnchanged

\* The upload is read, parsed, converted and validated, and the conversion
\* is stored: 400 without a file or with another type than PDF or XLSX, 500
\* when a step throws. isSuccess is the report's verdict.
Outcomes == {"no file", "invalid type", "throws", "valid", "invalid"}

ConvertUpload(s) ==
    /\ convertReq[s].at = "upload"
    /\ \E outcome \in Outcomes :
          IF outcome \in {"no file", "invalid type"}
          THEN Respond(s, 400) /\ UNCHANGED processedToday
          ELSE IF outcome = "throws"
          THEN Respond(s, 500) /\ UNCHANGED processedToday
          ELSE LET isSuccess == outcome = "valid"
               IN /\ processedToday' = processedToday + 1
                  /\ IF (isSuccess /\ convertReq[s].hasQuota) \/ ~isSuccess
                     THEN convertReq' = [convertReq EXCEPT ![s].isSuccess = isSuccess,
                                                           ![s].at = "increment:find"]
                     ELSE Respond(s, 200)
    /\ UNCHANGED <<anonUsage, now, uploadsLeft>>
    /\ QuotaUnchanged

\* incrementAnonUsage: findUnique.
IncrementFind(s) ==
    /\ convertReq[s].at = "increment:find"
    /\ convertReq' = [convertReq EXCEPT ![s].existing = anonUsage[convertReq[s].anonId].exists,
                                        ![s].at = "increment:write"]
    /\ UNCHANGED <<anonUsage, now, processedToday, uploadsLeft>>
    /\ QuotaUnchanged

\* incrementAnonUsage: update or create; the handler then answers 200.
IncrementWrite(s) ==
    /\ convertReq[s].at = "increment:write"
    /\ LET a == convertReq[s].anonId
           success == convertReq[s].isSuccess
       IN IF convertReq[s].existing
          THEN /\ anonUsage' = [anonUsage EXCEPT ![a] = incrementedUsage(@, success, now)]
               /\ Respond(s, 200)
          ELSE IF anonUsage[a].exists
          THEN Respond(s, 500) /\ UNCHANGED anonUsage
          ELSE /\ anonUsage' = [anonUsage EXCEPT ![a] = firstUsage(success, now)]
               /\ Respond(s, 200)
    /\ UNCHANGED <<now, processedToday, uploadsLeft>>
    /\ QuotaUnchanged

\* A day passes.
AdvanceClock ==
    /\ now < MaxDays
    /\ now' = now + 1
    /\ processedToday' = 0
    /\ UNCHANGED <<anonUsage, convertReq, uploadsLeft>>
    /\ QuotaUnchanged

IdleConvert ==
    /\ pc = "convert"
    /\ invoice = EmptyInvoice
    /\ IdlePipeline
    /\ IdleRound
    /\ IdleAI
    /\ IdleReport
    /\ IdleDownload
    /\ IdleBilling
    /\ IdleUpload

\* One client, its requests overlapping.
InitQuota ==
    /\ IdleConvert
    /\ anonUsage = [a \in AnonIds |-> NoUsage]
    /\ convertReq = [s \in Slots |-> NoRequest(0)]
    /\ now = 0
    /\ processedToday = 0
    /\ uploadsLeft = MaxRequests

\* One client, sending one request after another.
InitRateLimit ==
    /\ IdleConvert
    /\ anonUsage = [a \in AnonIds |-> NoUsage]
    /\ convertReq = [s \in Slots |-> IF s = 1 THEN NoRequest(0)
                                     ELSE [NoRequest(0) EXCEPT !.at = "closed"]]
    /\ now = 0
    /\ processedToday = 0
    /\ uploadsLeft = MaxUploads

NextQuota ==
    \/ \E s \in Slots : ConvertStart(s)
    \/ \E s \in Slots : QuotaFind(s)
    \/ \E s \in Slots : QuotaCreate(s)
    \/ \E s \in Slots : QuotaUpdate(s)
    \/ \E s \in Slots : ConvertUpload(s)
    \/ \E s \in Slots : IncrementFind(s)
    \/ \E s \in Slots : IncrementWrite(s)
    \/ AdvanceClock

SpecQuota == InitQuota /\ [][NextQuota]_vars
SpecRateLimit == InitRateLimit /\ [][NextQuota]_vars

----------------------------------------------------------------------------
(* Download handler (src/pages/api/download.ts 8-143) with checkUserQuota
   and useUserCredit (src/lib/quota.ts 108-171) *)

MaxCredits == 2

Payments ==
    {NoPayment, [exists |-> TRUE, isUnlimited |-> TRUE, creditsBalance |-> 0]}
    \cup {[exists |-> TRUE, isUnlimited |-> FALSE, creditsBalance |-> c] : c \in 0..MaxCredits}

\* The Conversion row the convert handler stores for an anonymous upload.
FullXml == "<Invoice/>"

StoredConversion(a, isSuccess) ==
    [exists |-> TRUE, ownerType |-> "ANON", ownerId |-> a, success |-> isSuccess,
     fullXml |-> FullXml, downloaded |-> FALSE]

\* checkUserQuota, of the user's latest payment.
checkUserQuota(p) ==
    IF ~p.exists THEN [hasQuota |-> FALSE, isUnlimited |-> FALSE]
    ELSE IF p.isUnlimited THEN [hasQuota |-> TRUE, isUnlimited |-> TRUE]
    ELSE [hasQuota |-> p.creditsBalance > 0, isUnlimited |-> FALSE]

\* useUserCredit: the payment it leaves and the value it returns.
useUserCredit(p) ==
    IF ~p.exists THEN [payment |-> p, used |-> FALSE]
    ELSE IF p.isUnlimited THEN [payment |-> p, used |-> TRUE]
    ELSE IF p.creditsBalance <= 0 THEN [payment |-> p, used |-> FALSE]
    ELSE [payment |-> [p EXCEPT !.creditsBalance = @ - 1], used |-> TRUE]

Balances == [u \in Users |-> payment[u].creditsBalance]

\* Lines 42-44: the session's user owns the conversion, or the conversion is
\* still anonymous and the request carries its anon_id cookie.
isOwnerOfAnything(conv, userId, cookie) ==
    \/ conv.ownerType = "USER"
    \/ conv.ownerType = "ANON" /\ conv.ownerId = cookie

isOwner(conv, userId, cookie) ==
    \/ conv.ownerType = "USER" /\ conv.ownerId = userId
    \/ conv.ownerType = "ANON" /\ conv.ownerId = cookie

Answer(code, body) ==
    /\ downloadResponse' = [status |-> code, xml |-> body]
    /\ downloadReq' = NoDownload

DownloadUnchanged == UNCHANGED <<pipelineVars, roundVars, aiVars, reportVars, quotaVars, billingVars, parserVars>>

\* A request arrives (lines 9-70): the method, the body's conversionId, the
\* session and the anon_id cookie are the client's. A database call that
\* rejects is caught and answered 500.
DownloadStart ==
    /\ downloadReq.at = "idle"
    /\ balanceBefore' = Balances
    /\ \E method \in {"GET", "POST"}, conversionId \in {"", "unknown", "conversion-1"},
          session \in Users \cup {"none"}, cookie \in AnonIds \cup {"none"},
          rejects \in BOOLEAN :
          IF method # "POST" THEN Answer(405, "") /\ UNCHANGED conversion
          ELSE IF conversionId = "" THEN Answer(400, "") /\ UNCHANGED conversion
          ELSE IF rejects THEN Answer(500, "") /\ UNCHANGED conversion
          ELSE IF conversionId = "unknown" THEN Answer(404, "") /\ UNCHANGED conversion
          ELSE IF session = "none" THEN Answer(401, "") /\ UNCHANGED conversion
          ELSE IF ~isOwner(conversion, session, cookie)
               THEN Answer(403, "") /\ UNCHANGED conversion
               ELSE /\ conversion' = [conversion EXCEPT !.ownerType = "USER",
                                                        !.ownerId = session]
                    /\ downloadResponse' = NoDownloadResponse
                    /\ downloadReq' = [at |-> "quota", userId |-> session,
                                       anonId |-> cookie,
                                       conversion |-> conversion,
                                       isUnlimited |-> FALSE]
    /\ UNCHANGED payment
    /\ DownloadUnchanged

\* Lines 72-90: 402 without quota, 400 for a conversion that did not succeed.
DownloadCheckQuota ==
    /\ downloadReq.at = "quota"
    /\ \E rejects \in BOOLEAN :
          LET quota == checkUserQuota(payment[downloadReq.userId])
          IN IF rejects THEN Answer(500, "")
             ELSE IF ~quota.hasQuota /\ ~quota.isUnlimited THEN Answer(402, "")
             ELSE IF ~downloadReq.conversion.success THEN Answer(400, "")
             ELSE /\ downloadReq' = [downloadReq EXCEPT !.at = IF quota.isUnlimited THEN "token"
                                                               ELSE "credit",
                                                        !.isUnlimited = quota.isUnlimited]
                  /\ UNCHANGED downloadResponse
    /\ UNCHANGED <<payment, conversion, balanceBefore>>
    /\ DownloadUnchanged

\* Lines 93-101: a credit is used; 402 when useUserCredit returns false.
DownloadUseCredit ==
    /\ downloadReq.at = "credit"
    /\ \E rejects \in BOOLEAN :
          LET u == downloadReq.userId
              credit == useUserCredit(payment[u])
          IN IF rejects THEN Answer(500, "") /\ UNCHANGED payment
             ELSE /\ payment' = [payment EXCEPT ![u] = credit.payment]
                  /\ IF ~credit.used
                     THEN Answer(402, "")
                     ELSE /\ downloadReq' = [downloadReq EXCEPT !.at = "token"]
                          /\ UNCHANGED downloadResponse
    /\ UNCHANGED <<conversion, balanceBefore>>
    /\ DownloadUnchanged

\* Lines 103-135: the download token is created, the conversion is marked as
\* downloaded, and the full XML is returned; 500 when it is missing.
DownloadRespond ==
    /\ downloadReq.at = "token"
    /\ \E rejects \in BOOLEAN :
          IF rejects THEN Answer(500, "") /\ UNCHANGED conversion
          ELSE /\ conversion' = [conversion EXCEPT !.downloaded = TRUE]
               /\ IF downloadReq.conversion.fullXml = ""
                  THEN Answer(500, "")
                  ELSE Answer(200, downloadReq.conversion.fullXml)
    /\ UNCHANGED <<payment, balanceBefore>>
    /\ DownloadUnchanged

InitDownload ==
    /\ pc = "download"
    /\ invoice = EmptyInvoice
    /\ IdlePipeline
    /\ IdleRound
    /\ IdleAI
    /\ IdleReport
    /\ IdleQuota
    /\ IdleBilling
    /\ IdleUpload
    /\ payment \in [Users -> Payments]
    /\ \E a \in AnonIds, isSuccess \in BOOLEAN : conversion = StoredConversion(a, isSuccess)
    /\ downloadReq = NoDownload
    /\ balanceBefore = Balances
    /\ downloadResponse = NoDownloadResponse

NextDownload == DownloadStart \/ DownloadCheckQuota \/ DownloadUseCredit \/ DownloadRespond

SpecDownload == InitDownload /\ [][NextDownload]_vars

----------------------------------------------------------------------------
(* Payments webhook (src/unnamed/part_002 7-95) and the credit use of the
   download handler (src/pages/api/download.ts 72-101, src/lib/quota.ts
   108-171), for the Payment rows of one user and requests that overlap *)

MaxBilling == 4

\* What mollieClient.payments.get answers for a payment id.
MolliePayments ==
    [id \in MolliePaymentIds |->
        CASE id = "tr_1" -> [status |-> "paid", type |-> "one_off", credits |-> 2]
          [] id = "tr_2" -> [status |-> "paid", type |-> "subscription", credits |-> 0]
          [] id = "tr_3" -> [status |-> "open", type |-> "one_off", credits |-> 2]]

\* findFirst({where: {userId, type}, orderBy: {createdAt: 'desc'}}): the
\* index of the row, 0 for null.
LatestOfType(rows, type) ==
    IF \E i \in 1..Len(rows) : rows[i].type = type
    THEN CHOOSE i \in 1..Len(rows) :
             /\ rows[i].type = type
             /\ \A j \in 1..Len(rows) : rows[j].type = type => j <= i
    ELSE 0

\* findFirst({where: {userId}, orderBy: {updatedAt: 'desc'}})
LatestUpdated(rows) ==
    IF rows = <<>> THEN 0
    ELSE CHOOSE i \in 1..Len(rows) : \A j \in 1..Len(rows) : rows[j].updatedAt <= rows[i].updatedAt

PaymentAt(rows, i) == IF i = 0 THEN NoPayment ELSE rows[i]

\* The time of the next write: later than every updatedAt so far.
WriteTime(rows) ==
    IF rows = <<>> THEN 1
    ELSE 1 + rows[LatestUpdated(rows)].updatedAt

NewPayment(type, unlimited, credits, time) ==
    [exists |-> TRUE, type |-> type, isUnlimited |-> unlimited, creditsBalance |-> credits,
     updatedAt |-> time]

AnswerBilling(s, code) == billingReq' = [billingReq EXCEPT ![s] = NoBilling(code)]

BillingUnchanged == UNCHANGED <<pipelineVars, roundVars, aiVars, reportVars, quotaVars, downloadVars, parserVars>>

\* Webhook, lines 8-29: 405 unless POST, 400 without an id; the payment is
\* fetched from Mollie, and one that is not paid is acknowledged with 200.
WebhookStart(s) ==
    /\ billingReq[s].at = "idle"
    /\ billingLeft > 0
    /\ billingLeft' = billingLeft - 1
    /\ \E method \in {"GET", "POST"}, id \in MolliePaymentIds \cup {""} :
          IF method # "POST" THEN AnswerBilling(s, 405)
          ELSE IF id = "" THEN AnswerBilling(s, 400)
          ELSE IF MolliePayments[id].status # "paid" THEN AnswerBilling(s, 200)
          ELSE billingReq' = [billingReq EXCEPT ![s] =
                                 [at |-> "webhook:find", status |-> 0, id |-> id, found |-> 0]]
    /\ UNCHANGED <<paymentRows, credited>>
    /\ BillingUnchanged

\* Webhook, lines 31-38: the user's latest row of the payment's type.
WebhookFind(s) ==
    /\ billingReq[s].at = "webhook:find"
    /\ LET type == IF MolliePayments[billingReq[s].id].type = "subscription"
                   THEN "SUBSCRIPTION" ELSE "ONE_OFF"
       IN billingReq' = [billingReq EXCEPT ![s].found = LatestOfType(paymentRows, type),
                                           ![s].at = "webhook:write"]
    /\ UNCHANGED <<paymentRows, credited, billingLeft>>
    /\ BillingUnchanged

\* Webhook, lines 40-87: the credits are added to the row found, or a row is
\* created with them; a subscription sets isUnlimited.
WebhookWrite(s) ==
    /\ billingReq[s].at = "webhook:write"
    /\ LET id == billingReq[s].id
           paid == MolliePayments[id]
           found == billingReq[s].found
           time == WriteTime(paymentRows)
       IN IF paid.type = "one_off"
          THEN /\ paymentRows' =
                     IF found # 0
                     THEN [paymentRows EXCEPT ![found].creditsBalance = @ + paid.credits,
                                              ![found].updatedAt = time]
                     ELSE Append(paymentRows, NewPayment("ONE_OFF", FALSE, paid.credits, time))
               /\ credited' = [credited EXCEPT ![id] = @ + 1]
          ELSE /\ paymentRows' =
                     IF found # 0
                     THEN [paymentRows EXCEPT ![found].isUnlimited = TRUE,
                                              ![found].updatedAt = time]
                     ELSE Append(paymentRows, NewPayment("SUBSCRIPTION", TRUE, 0, time))
               /\ UNCHANGED credited
    /\ AnswerBilling(s, 200)
    /\ UNCHANGED billingLeft
    /\ BillingUnchanged

\* Download, lines 72-93, for the owner of a successful conversion: 402
\* without quota; an unlimited user needs no credit.
CreditCheck(s) ==
    /\ billingReq[s].at = "idle"
    /\ billingLeft > 0
    /\ billingLeft' = billingLeft - 1
    /\ LET quota == checkUserQuota(PaymentAt(paymentRows, LatestUpdated(paymentRows)))
       IN IF ~quota.hasQuota /\ ~quota.isUnlimited THEN AnswerBilling(s, 402)
          ELSE IF quota.isUnlimited THEN AnswerBilling(s, 200)
          ELSE billingReq' = [billingReq EXCEPT ![s] =
                                 [at |-> "credit:find", status |-> 0, id |-> "", found |-> 0]]
    /\ UNCHANGED <<paymentRows, credited>>
    /\ BillingUnchanged

\* useUserCredit, lines 146-161: the latest payment is read and tested; 402
\* when it returns false.
CreditFind(s) ==
    /\ billingReq[s].at = "credit:find"
    /\ LET found == LatestUpdated(paymentRows)
           p == PaymentAt(paymentRows, found)
       IN IF ~p.exists THEN AnswerBilling(s, 402)
          ELSE IF p.isUnlimited THEN AnswerBilling(s, 200)
          ELSE IF p.creditsBalance <= 0 THEN AnswerBilling(s, 402)
          ELSE billingReq' = [billingReq EXCEPT ![s].found = found, ![s].at = "credit:update"]
    /\ UNCHANGED <<paymentRows, credited, billingLeft>>
    /\ BillingUnchanged

\* useUserCredit, lines 163-170: the decrement of the row that was read.
CreditUpdate(s) ==
    /\ billingReq[s].at = "credit:update"
    /\ paymentRows' = [paymentRows EXCEPT ![billingReq[s].found].creditsBalance = @ - 1,
                                          ![billingReq[s].found].updatedAt = WriteTime(paymentRows)]
    /\ AnswerBilling(s, 200)
    /\ UNCHANGED <<credited, billingLeft>>
    /\ BillingUnchanged

InitBilling ==
    /\ pc = "billing"
    /\ invoice = EmptyInvoice
    /\ IdlePipeline
    /\ IdleRound
    /\ IdleAI
    /\ IdleReport
    /\ IdleQuota
    /\ IdleDownload
    /\ IdleUpload
    /\ paymentRows = <<>>
    /\ billingReq = [s \in Slots |-> NoBilling(0)]
    /\ credited = [id \in MolliePaymentIds |-> 0]
    /\ billingLeft = MaxBilling

NextBilling ==
    \/ \E s \in Slots : WebhookStart(s)
    \/ \E s \in Slots : WebhookFind(s)
    \/ \E s \in Slots : WebhookWrite(s)
    \/ \E s \in Slots : CreditCheck(s)
    \/ \E s \in Slots : CreditFind(s)
    \/ \E s \in Slots : CreditUpdate(s)

SpecBilling == InitBilling /\ [][NextBilling]_vars

----------------------------------------------------------------------------
(* Normalizer: claims *)

IsPresent(v) == v.k = "number"

\* C1: normalizeInvoice is idempotent: applied to its own result it returns a
\* value equal, field by field, to the argument it was given.
C1_NormalizeIdempotent == pc = "renormalized" => renormalized = before

\* A second pass over an invoice whose first pass prefixed a VAT number and
\* derived a line total and the invoice totals.
C1_Witness ==
    /\ pc = "renormalized"
    /\ renormalized.supplier.vatNumber.s = <<"B","E","0","1","2","3","4","5","6","7","8","9">>
    /\ renormalized.lines[1].lineTotal = Num(5000)
    /\ renormalized.totalInclVat.k = "number"

\* C5: normalizeInvoice leaves the invoice object passed in as it was: after
\* the call every field of the argument, the party VAT numbers included, has
\* the value it had before the call.
C5_ArgumentUnchanged == pc # "normalize" => invoice = before

\* C8: every lineTotal, subtotalExclVat, vatTotal and totalInclVat that is a
\* number on the input has the same value in the result of normalizeInvoice.
C8_ExplicitAmountsKept ==
    pc \in {"convert", "validate", "done"} =>
        /\ Len(normalized.lines) = Len(before.lines)
        /\ \A i \in 1..Len(before.lines) :
              IsPresent(before.lines[i].lineTotal)
                  => normalized.lines[i].lineTotal = before.lines[i].lineTotal
        /\ IsPresent(before.subtotalExclVat) => normalized.subtotalExclVat = before.subtotalExclVat
        /\ IsPresent(before.vatTotal) => normalized.vatTotal = before.vatTotal
        /\ IsPresent(before.totalInclVat) => normalized.totalInclVat = before.totalInclVat

\* The normalizer ran on an invoice with an explicit line total 0 beside a
\* quantity and a unit price, and explicit totals that match nothing.
C8_Witness ==
    /\ pc = "convert"
    /\ \E i \in 1..Len(before.lines) :
          /\ before.lines[i].lineTotal = Num(0)
          /\ before.lines[i].quantity = Num(3000)
          /\ before.lines[i].unitPrice = Num(1665)
    /\ before.subtotalExclVat = Num(1234)
    /\ before.totalInclVat = Num(99990)

\* C7: for every line whose quantity and unitPrice are numbers and whose
\* lineTotal the normalizer derived, the normalizer's lineTotal, the validator's
\* calculatedTotal and the serializer's LineExtensionAmount are equal.
C7_LineTotalAgrees ==
    (pc = "done" /\ status = 200) =>
        \A i \in 1..Len(before.lines) :
            (/\ IsPresent(before.lines[i].quantity)
             /\ IsPresent(before.lines[i].unitPrice)
             /\ IsNullish(before.lines[i].lineTotal))
            => /\ lineChecks[i] = normalized.lines[i].lineTotal
               /\ ubl.InvoiceLine[i].LineExtensionAmount = normalized.lines[i].lineTotal

\* C2: when the invoice has a line and the normalizer derived all three
\* totals, the validator emits none of ERR_INVALID_SUBTOTAL,
\* ERR_INVALID_VAT_TOTAL, ERR_INVALID_TOTAL.
C2_DerivedTotalsValidate ==
    (/\ pc = "done" /\ status = 200
     /\ Len(before.lines) >= 1
     /\ before.subtotalExclVat = Undefined
     /\ before.vatTotal = Undefined
     /\ before.totalInclVat = Undefined)
    => /\ ~HasCode(errors, "ERR_INVALID_SUBTOTAL")
       /\ ~HasCode(errors, "ERR_INVALID_VAT_TOTAL")
       /\ ~HasCode(errors, "ERR_INVALID_TOTAL")

\* C6: roundTo2Decimals rounds to 2 decimal places with ties away from zero,
\* for negative amounts too.
C6_RoundsHalfAwayFromZero == pc = "rounded" => roundOut = RoundHalfAwayFromZero(roundIn, 1000)

----------------------------------------------------------------------------
(* Serializer: claims *)

\* C3: convertToUBL returns a document without throwing for every invoice its
\* callers pass it, the update handler's JSON invoice included.
C3_ConvertToUBLNeverThrows == ubl # TypeError

----------------------------------------------------------------------------
(* AI enhancer: claims *)

AiPaths == {"invoiceNumber", "issueDate", "supplier.name", "customer.name"}

\* The value an AI response holds at a mapping path (?. on the parties).
ValueAt(aiData, path) ==
    CASE path = "invoiceNumber" -> aiData.invoiceNumber
      [] path = "issueDate" -> aiData.issueDate
      [] path = "supplier.name" -> aiData.supplier.name
      [] path = "customer.name" -> aiData.customer.name

Merged == pc = "ai:returned" /\ aiResult.aiUsed

\* C9: after an AI merge, for each of the paths invoiceNumber, issueDate,
\* supplier.name and customer.name at which the response holds a value (a
\* non-empty string), the merged list has exactly one entry for the path, and
\* it is the AI entry: the response's value, confidence 0.9, source ai-gemini.
C9_OneAIEntryPerPath ==
    Merged =>
        \A path \in AiPaths :
            Truthy(ValueAt(aiResponse.v, path)) =>
                /\ Cardinality({i \in 1..Len(aiResult.mappingFields) :
                                   aiResult.mappingFields[i].field = path}) = 1
                /\ \E i \in 1..Len(aiResult.mappingFields) :
                      aiResult.mappingFields[i] =
                          MappingField(path, ValueAt(aiResponse.v, path), "ai-gemini", 90)

\* The candidate list held two invoiceNumber entries around another entry, and
\* the response reported an invoice number: the merge has run.
C9_Witness ==
    /\ Merged
    /\ Len(mappingFields) = 3
    /\ mappingFields[1].field = "invoiceNumber"
    /\ mappingFields[2].field = "supplier.name"
    /\ mappingFields[3].field = "invoiceNumber"
    /\ aiResponse.v.invoiceNumber = Str(New2)
    /\ aiResponse.v.supplier.name = Str(Globex)

StringFields == {"invoiceNumber", "currency", "iban", "paymentReference"}
DateFields == {"issueDate", "dueDate"}
TotalFields == {"subtotalExclVat", "vatTotal", "totalInclVat"}

Returned == pc = "ai:returned"

\* C4 as stated: parseWithAI returns, and whenever a step failed (text
\* extraction, the HTTP call, a non-2xx status, an empty response, JSON
\* parsing) or no credential is configured, the result is the candidate invoice
\* and list with aiUsed = false.
C4_AnyFailureFallsBack ==
    Returned =>
        /\ aiResult # NoResult
        /\ (~geminiKey \/ aiFailures # {}) =>
              aiResult = [invoice |-> invoice, mappingFields |-> mappingFields, aiUsed |-> FALSE]

\* The failures that end the completion: every one but a failed text
\* extraction, and a non-2xx status that the text-only retry follows.
EndsCompletion(step) ==
    \/ step \in {"http call", "retry http call", "retry status", "empty response",
                 "json parsing", "no response"}
    \/ step = "status" /\ Len(requests) = 1

\* C4, amended: parseWithAI always returns a result.  Without a credential it
\* sends no request.  Without a credential, and when the completion fails in
\* the end (fetch rejects, a non-2xx status that no successful retry follows,
\* an empty response, unparsable JSON, a falsy parsed value), the result is the
\* candidate invoice and list with aiUsed = false.  aiUsed = true only when a
\* response was parsed and merged.  A failed text extraction, or a non-2xx
\* status followed by a successful text-only retry, does not prevent that.
C4_NeverThrowsFallsBack ==
    Returned =>
        /\ aiResult # NoResult
        /\ ~geminiKey => requests = <<>>
        /\ (~geminiKey \/ \E step \in aiFailures : EndsCompletion(step)) =>
              aiResult = [invoice |-> invoice, mappingFields |-> mappingFields, aiUsed |-> FALSE]
        /\ aiResult.aiUsed =>
              /\ aiResponse.k = "object"
              /\ aiResult.invoice = mergeAIResults(invoice, aiResponse.v)
              /\ aiResult.mappingFields = mergeAIMappingFields(mappingFields, aiResponse.v, AiGemini)
        /\ ~aiResult.aiUsed =>
              /\ aiResult.invoice = invoice
              /\ aiResult.mappingFields = mappingFields
              /\ ~geminiKey \/ \E step \in aiFailures : EndsCompletion(step)

\* With a credential, the first request of a PDF got a non-2xx status, the
\* text-only retry got a body that is no JSON, and the candidate came back.
C4_Witness ==
    /\ Returned
    /\ geminiKey
    /\ invoice = FullInvoice
    /\ Len(requests) = 2
    /\ aiFailures = {"status", "json parsing"}
    /\ ~aiResult.aiUsed

\* A party block with a name element (possibly empty) and a country code
HasNameAndCountry(party) ==
    /\ party.Name.k = "string"
    /\ party.IdentificationCode.k = "string"
    /\ party.IdentificationCode.s # <<>>

\* C17: whichever fields of the invoice are absent, the convert handler gets a
\* document from convertToUBL, with a supplier and a customer party that each
\* have a name element and a country code, at least one TaxTotal with a tax
\* amount, and a LegalMonetaryTotal whose four amounts are numbers with
\* LineExtensionAmount = TaxExclusiveAmount and TaxInclusiveAmount =
\* PayableAmount; for the empty invoice all four are zero.
C17_DefensiveCompleteness ==
    pc \in {"validate", "done"} =>
        /\ ubl.k = "document"
        /\ HasNameAndCountry(ubl.AccountingSupplierParty)
        /\ HasNameAndCountry(ubl.AccountingCustomerParty)
        /\ Len(ubl.TaxTotal) >= 1
        /\ \A i \in 1..Len(ubl.TaxTotal) : IsPresent(ubl.TaxTotal[i].TaxAmount)
        /\ IsPresent(ubl.LegalMonetaryTotal.LineExtensionAmount)
        /\ IsPresent(ubl.LegalMonetaryTotal.TaxExclusiveAmount)
        /\ IsPresent(ubl.LegalMonetaryTotal.TaxInclusiveAmount)
        /\ IsPresent(ubl.LegalMonetaryTotal.PayableAmount)
        /\ ubl.LegalMonetaryTotal.LineExtensionAmount = ubl.LegalMonetaryTotal.TaxExclusiveAmount
        /\ ubl.LegalMonetaryTotal.TaxInclusiveAmount = ubl.LegalMonetaryTotal.PayableAmount
        /\ before = EmptyInvoice =>
              /\ ubl.LegalMonetaryTotal.LineExtensionAmount = Num(0)
              /\ ubl.LegalMonetaryTotal.PayableAmount = Num(0)
              /\ ubl.TaxTotal[1].TaxAmount = Num(0)

\* The handler has serialized the empty invoice: default parties, the one
\* TaxTotal of amount 0, and totals of 0.
C17_Witness ==
    /\ pc = "validate"
    /\ before = EmptyInvoice
    /\ ubl.AccountingSupplierParty.Name = Str(<<>>)
    /\ ubl.AccountingSupplierParty.IdentificationCode = Str(BE)
    /\ ubl.TaxTotal = <<EmptyTaxTotal>>
    /\ ubl.LegalMonetaryTotal.TaxInclusiveAmount = Num(0)

----------------------------------------------------------------------------
(* Validator: claims *)

\* Sum of the lines' lineTotal, in thousandths
RECURSIVE LineTotalSum(_)
LineTotalSum(lines) ==
    IF lines = <<>> THEN 0
    ELSE (IF IsPresent(Head(lines).lineTotal) THEN Head(lines).lineTotal.n ELSE 0)
         + LineTotalSum(Tail(lines))

\* Sum of the lines' lineTotal x vatRate / 100, in units of 10^-8
RECURSIVE LineVatSum(_)
LineVatSum(lines) ==
    IF lines = <<>> THEN 0
    ELSE (IF IsPresent(Head(lines).lineTotal) /\ IsPresent(Head(lines).vatRate)
          THEN Head(lines).lineTotal.n * Head(lines).vatRate.n ELSE 0)
         + LineVatSum(Tail(lines))

Validated == pc = "done" /\ status = 200

\* C11: each of subtotalExclVat, vatTotal and totalInclVat that is present on
\* the validated invoice and differs by more than 0.01 from its recomputed
\* value (sum of lineTotal; sum of lineTotal x vatRate / 100; subtotal + VAT)
\* has its own error entry, also without lines and without VAT rates.
C11_EachTotalChecked ==
    Validated =>
        /\ (/\ IsPresent(normalized.subtotalExclVat)
            /\ Abs(LineTotalSum(normalized.lines) - normalized.subtotalExclVat.n) > 10)
           => HasCode(errors, "ERR_INVALID_SUBTOTAL")
        /\ (/\ IsPresent(normalized.vatTotal)
            /\ Abs(LineVatSum(normalized.lines) - normalized.vatTotal.n * 100000) > 1000000)
           => HasCode(errors, "ERR_INVALID_VAT_TOTAL")
        /\ (/\ IsPresent(normalized.totalInclVat)
            /\ IsPresent(normalized.subtotalExclVat)
            /\ IsPresent(normalized.vatTotal)
            /\ Abs(normalized.subtotalExclVat.n + normalized.vatTotal.n
                   - normalized.totalInclVat.n) > 10)
           => HasCode(errors, "ERR_INVALID_TOTAL")

Range(list) == {list[i] : i \in 1..Len(list)}

\* The entries of a code in a list
WithCode(list, code) == SelectSeq(list, LAMBDA e : e.code = code)

\* The error codes of the business rules; each reports a value that is
\* there and wrong.
ValueErrorCodes ==
    {"ERR_INVALID_ISSUE_DATE", "ERR_INVALID_LINE_AMOUNT", "ERR_INVALID_SUBTOTAL",
     "ERR_INVALID_VAT_TOTAL", "ERR_INVALID_TOTAL", "ERR_INVALID_VAT_FORMAT"}

\* C12: for each of invoice number, issue date, supplier name, supplier
\* country, customer name and at-least-one-line that is absent from the
\* validated invoice, validateBusinessRules emits one entry of severity
\* warning and no entry of severity error: an entry of severity error reports
\* a value that is there, and ERR_INVALID_ISSUE_DATE an issue date that is
\* there.  The report of the all-empty invoice has isValid = true.
C12_MissingFieldsOnlyWarn ==
    Validated =>
        /\ IsNullish(normalized.invoiceNumber)
              => WithCode(errors, "WARN_MISSING_INVOICE_ID") = <<Entry("WARN_MISSING_INVOICE_ID", "warning")>>
        /\ IsNullish(normalized.issueDate)
              => /\ WithCode(errors, "WARN_MISSING_ISSUE_DATE") = <<Entry("WARN_MISSING_ISSUE_DATE", "warning")>>
                 /\ ~HasCode(errors, "ERR_INVALID_ISSUE_DATE")
        /\ IsNullish(normalized.supplier.name)
              => WithCode(errors, "WARN_MISSING_SUPPLIER_NAME") = <<Entry("WARN_MISSING_SUPPLIER_NAME", "warning")>>
        /\ IsNullish(normalized.supplier.address.countryCode)
              => WithCode(errors, "WARN_MISSING_SUPPLIER_COUNTRY") = <<Entry("WARN_MISSING_SUPPLIER_COUNTRY", "warning")>>
        /\ IsNullish(normalized.customer.name)
              => WithCode(errors, "WARN_MISSING_CUSTOMER_NAME") = <<Entry("WARN_MISSING_CUSTOMER_NAME", "warning")>>
        /\ normalized.lines = <<>>
              => WithCode(errors, "WARN_NO_INVOICE_LINES") = <<Entry("WARN_NO_INVOICE_LINES", "warning")>>
        /\ \A i \in 1..Len(errors) :
              errors[i].severity = "error" => errors[i].code \in ValueErrorCodes
        /\ before = EmptyInvoice => report.isValid /\ report.errors = <<>>

\* The handler has validated the all-empty invoice: six warnings for the six
\* missing fields, and the note of the schema validation.
C12_Witness ==
    /\ Validated
    /\ before = EmptyInvoice
    /\ Len(errors) = 6
    /\ Len(report.warnings) = 7
    /\ report.isValid

----------------------------------------------------------------------------
(* Data-quality checker and report: claims *)

\* C13 as stated: every entry returned by validateDataQuality has severity
\* warning, so the data-quality entries alone give a report with isValid true.
C13_DataQualityAdvisory ==
    Validated =>
        /\ \A i \in 1..Len(dataQualityErrors) : dataQualityErrors[i].severity = "warning"
        /\ \A i \in 1..Len(dataQualityErrors) : dataQualityErrors[i] \notin Range(report.errors)

BlockingQualityCodes ==
    {"ERR_NEGATIVE_QUANTITY", "ERR_NEGATIVE_PRICE", "ERR_NEGATIVE_LINE_TOTAL",
     "ERR_INVALID_VAT_RATE", "ERR_NEGATIVE_TOTAL"}

\* C13, amended: every entry returned by validateDataQuality has severity
\* warning, except the entries for a negative quantity, unit price, line total
\* or grand total and for a VAT rate outside 0..100, which have severity
\* error; the report is invalid whenever there is one of those, and the other
\* data-quality entries never make it invalid.
C13_DataQualitySeverities ==
    Validated =>
        /\ \A i \in 1..Len(dataQualityErrors) :
              /\ dataQualityErrors[i].code \in BlockingQualityCodes
                    => dataQualityErrors[i].severity = "error"
              /\ dataQualityErrors[i].code \notin BlockingQualityCodes
                    => dataQualityErrors[i].severity = "warning"
        /\ (\E i \in 1..Len(dataQualityErrors) : dataQualityErrors[i].code \in BlockingQualityCodes)
              => ~report.isValid
        /\ (/\ \A i \in 1..Len(dataQualityErrors) : dataQualityErrors[i].code \notin BlockingQualityCodes
            /\ \A i \in 1..Len(errors) : errors[i].severity = "warning")
              => report.isValid

\* The data-quality checker returned an advisory entry beside a blocking one,
\* the business rules found no error, and the report is invalid.
C13_Witness ==
    /\ Validated
    /\ HasCode(dataQualityErrors, "WARN_LOW_CONFIDENCE")
    /\ HasCode(dataQualityErrors, "ERR_INVALID_VAT_RATE")
    /\ \A i \in 1..Len(errors) : errors[i].severity = "warning"
    /\ ~report.isValid

\* How often an entry occurs in a list
Occurrences(list, e) == Cardinality({i \in 1..Len(list) : list[i] = e})

\* C14: every entry of the list handed to buildValidationReport (business
\* rules, data quality and schema entries, concatenated) occurs as often in
\* report.errors, when its severity is error, or in report.warnings, when it
\* is warning, as in the list, and not in the other; nothing else is in the
\* report; isValid is true exactly when report.errors is empty.
C14_ReportKeepsEveryIssue ==
    Validated =>
        LET all == errors \o dataQualityErrors \o <<Entry("INFO_XSD_VALIDATION_SKIPPED", "warning")>>
        IN  /\ \A i \in 1..Len(all) :
                  IF all[i].severity = "error"
                  THEN /\ Occurrences(report.errors, all[i]) = Occurrences(all, all[i])
                       /\ Occurrences(report.warnings, all[i]) = 0
                  ELSE /\ Occurrences(report.warnings, all[i]) = Occurrences(all, all[i])
                       /\ Occurrences(report.errors, all[i]) = 0
            /\ Len(report.errors) + Len(report.warnings) = Len(all)
            /\ report.isValid <=> report.errors = <<>>

\* A report built from a business-rule error, data-quality errors and
\* warnings of all three validators, one warning occurring twice.
C14_Witness ==
    /\ Validated
    /\ HasCode(errors, "ERR_INVALID_LINE_AMOUNT")
    /\ HasCode(dataQualityErrors, "ERR_NEGATIVE_PRICE")
    /\ Len(report.errors) >= 3
    /\ Occurrences(report.warnings, Entry("WARN_LOW_CONFIDENCE", "warning")) = 2
    /\ ~report.isValid

\* C15: validateDataQuality returns one ERR_NEGATIVE_QUANTITY entry per line
\* whose quantity is negative, of severity error, and with at least one such
\* line the handler's report has isValid = false.
C15_NegativeQuantityBlocks ==
    Validated =>
        LET negative == {i \in 1..Len(normalized.lines) :
                            IsPresent(normalized.lines[i].quantity) /\ normalized.lines[i].quantity.n < 0}
        IN  /\ Occurrences(dataQualityErrors, Entry("ERR_NEGATIVE_QUANTITY", "error"))
                  = Cardinality(negative)
            /\ Len(WithCode(dataQualityErrors, "ERR_NEGATIVE_QUANTITY")) = Cardinality(negative)
            /\ negative # {} => ~report.isValid /\ Entry("ERR_NEGATIVE_QUANTITY", "error") \in Range(report.errors)

\* Two lines, the quantity of the second one -1: one entry, an invalid report.
C15_Witness ==
    /\ Validated
    /\ Len(before.lines) = 2
    /\ before.lines[1].quantity = Num(2000)
    /\ before.lines[2].quantity = Num(0 - 1000)
    /\ Len(WithCode(dataQualityErrors, "ERR_NEGATIVE_QUANTITY")) = 1
    /\ ~report.isValid

\* The deductions of C16, in hundredths
ConfidenceDeduction(field) ==
    LET found == {i \in 1..Len(mappingFields) : mappingFields[i].field = field}
        first == CHOOSE i \in found : \A j \in found : i <= j
    IN  IF found = {} THEN 10
        ELSE IF mappingFields[first].confidence < 50 THEN 15
        ELSE IF mappingFields[first].confidence < 70 THEN 5
        ELSE 0

IsPlaceholder(v) ==
    /\ v.k = "string"
    /\ v.s # <<>>
    /\ toUpperCase(v.s) \in {UNKNOWN, NA, NULL} \/ Len(v.s) < 3

\* C16: the quality score is, in hundredths, 100 minus 15 per critical field
\* of confidence below 0.5, 5 per critical field of confidence in [0.5, 0.7),
\* 10 per missing critical field, 10 per error entry, 2 per warning entry and
\* 10 for a placeholder invoice number (UNKNOWN, N/A, NULL, or shorter than 3
\* characters), clamped to 0..100; the level is excellent from 90, good from
\* 70, fair from 50, else poor.
C16_ScoreDerivation ==
    Validated =>
        LET raw == 100
                   - ConfidenceDeduction("invoiceNumber") - ConfidenceDeduction("issueDate")
                   - ConfidenceDeduction("supplier.name") - ConfidenceDeduction("customer.name")
                   - 10 * Len(report.errors)
                   - 2 * Len(report.warnings)
                   - (IF IsPlaceholder(normalized.invoiceNumber) THEN 10 ELSE 0)
            score == IF raw < 0 THEN 0 ELSE IF raw > 100 THEN 100 ELSE raw
        IN  /\ qualityScore.score = score
            /\ qualityScore.level = (IF score >= 90 THEN "excellent"
                                     ELSE IF score >= 70 THEN "good"
                                     ELSE IF score >= 50 THEN "fair"
                                     ELSE "poor")

----------------------------------------------------------------------------
(* Anonymous quota: claims *)

\* C18: for every anon_id, AnonUsage.successCount never exceeds the free
\* allowance of 3, under any interleaving of convert requests that carry
\* the same anon_id cookie.
C18_SuccessCountWithinAllowance ==
    \A a \in AnonIds : anonUsage[a].successCount <= FREE_CONVERSION_LIMIT

\* C19: at most 10 uploads of one client are processed within a day,
\* whether they succeeded, failed or came after the free allowance ran out.
C19_TenUploadsPerDay ==
    processedToday <= MAX_UPLOADS_PER_DAY

----------------------------------------------------------------------------
(* Download handler: claims *)

DownloadAnswered == downloadReq.at = "idle" /\ downloadResponse.status # 0

\* C20: pay on success. A download request changes a creditsBalance only
\* when it ends with status 200 and the full XML of a conversion whose
\* success flag is true; a request that ends with an error status leaves
\* every creditsBalance as it was.
C20_PayOnSuccess ==
    DownloadAnswered /\ Balances # balanceBefore
        => /\ downloadResponse.status = 200
           /\ downloadResponse.xml = conversion.fullXml
           /\ conversion.success

----------------------------------------------------------------------------
(* Convert handler: order of the stages *)

\* C23: the stages of the convert handler run in the order normalizer,
\* validator, serializer: a document has been built by convertToUBL only
\* when the validation report of the normalized invoice exists.
C23_SerializerAfterValidation ==
    ubl # NoDocument => report # NoReport

----------------------------------------------------------------------------
(* AI merge: candidate data *)

PartyFields == {"name", "vatNumber", "kboNumber"}
AddressFields == {"street", "city", "postalCode", "countryCode"}

\* C29: the AI merge never loses candidate data: every header field, total
\* and supplier/customer sub-field that is present in the candidate invoice
\* is present in the merged invoice, whatever the response holds.
C29_CandidateDataKept ==
    Merged =>
        /\ \A f \in StringFields \cup DateFields \cup TotalFields :
              ~IsNullish(invoice[f]) => ~IsNullish(aiResult.invoice[f])
        /\ \A p \in {"supplier", "customer"} :
              invoice[p].k = "object" =>
                  /\ aiResult.invoice[p].k = "object"
                  /\ \A f \in PartyFields :
                        ~IsNullish(invoice[p][f]) => ~IsNullish(aiResult.invoice[p][f])
                  /\ \A f \in AddressFields :
                        ~IsNullish(invoice[p].address[f])
                            => ~IsNullish(aiResult.invoice[p].address[f])

----------------------------------------------------------------------------
(* Serializer: monetary totals *)

RECURSIVE SumTaxAmounts(_)
SumTaxAmounts(taxTotals) ==
    IF taxTotals = <<>> THEN 0
    ELSE ToNumber(Head(taxTotals).TaxAmount) + SumTaxAmounts(Tail(taxTotals))

\* C28: in every document convertToUBL builds from a normalized invoice,
\* TaxInclusiveAmount equals TaxExclusiveAmount plus the sum of the TaxTotal
\* TaxAmount values.
C28_TotalsConsistent ==
    ubl.k = "document" =>
        ToNumber(ubl.LegalMonetaryTotal.TaxInclusiveAmount)
            = ToNumber(ubl.LegalMonetaryTotal.TaxExclusiveAmount) + SumTaxAmounts(ubl.TaxTotal)

----------------------------------------------------------------------------
(* AI enhancer: retry policy *)

\* The first, attachment-bearing request failed: fetch rejected, the status
\* was not 2xx, or its body was empty or could not be parsed.
FirstRequestFailed ==
    \/ "http call" \in aiFailures
    \/ "status" \in aiFailures
    \/ Len(requests) = 1 /\ aiFailures \cap {"empty response", "json parsing"} # {}

\* C22: for a PDF with extracted text, a failed first request is followed by
\* exactly one further request, text-only and without attachment; no
\* enhancement sends more than two requests, and none sends a second one for
\* a spreadsheet or without extracted text.
C22_RetryPolicy ==
    Returned =>
        /\ Len(requests) <= 2
        /\ (mimeType # Pdf \/ extractedText = "") => Len(requests) <= 1
        /\ (mimeType = Pdf /\ extractedText # "" /\ FirstRequestFailed) =>
              /\ Len(requests) = 2
              /\ requests[2] = [attachment |-> FALSE, prompt |-> "text-only"]

----------------------------------------------------------------------------
(* Download handler: who gets the XML *)

\* A download request is answered in this step.
DownloadAnswers == downloadReq.at # "idle" /\ downloadReq'.at = "idle"

\* C21: the download handler returns the full XML only to a request with a
\* session whose user owns the conversion, or whose anon_id cookie is the
\* ownerId of a still-anonymous conversion, and who has quota (credits > 0
\* or unlimited); the user who gets the XML is the conversion's owner, and
\* no answer given before the ownership test carries XML.
C21_XmlOnlyToOwnerWithQuota ==
    [][/\ (DownloadAnswers /\ downloadResponse'.xml # "") =>
             /\ downloadReq.userId \in Users
             /\ \/ /\ downloadReq.conversion.ownerType = "USER"
                   /\ downloadReq.conversion.ownerId = downloadReq.userId
                \/ /\ downloadReq.conversion.ownerType = "ANON"
                   /\ downloadReq.conversion.ownerId = downloadReq.anonId
             /\ conversion'.ownerType = "USER"
             /\ conversion'.ownerId = downloadReq.userId
             /\ \/ payment[downloadReq.userId].isUnlimited
                \/ balanceBefore[downloadReq.userId] > 0
             /\ downloadResponse'.xml = conversion.fullXml
       /\ (downloadReq.at = "idle" /\ downloadReq'.at = "idle") => downloadResponse'.xml = ""
      ]_vars

\* A user got the XML of a conversion after another user's request for it
\* was refused.
C21_Witness ==
    /\ downloadResponse.status = 200
    /\ downloadResponse.xml = FullXml
    /\ conversion.ownerType = "USER"
    /\ conversion.ownerId = "user-2"
    /\ conversion.downloaded
    /\ balanceBefore["user-2"] = 1
    /\ payment["user-2"].creditsBalance = 0

----------------------------------------------------------------------------
(* Payments and credits: claims *)

\* C25: Payment.creditsBalance is never negative, also when download
\* requests of the same user overlap between the balance check and the
\* decrement in useUserCredit.
C25_BalanceNeverNegative ==
    \A i \in 1..Len(paymentRows) : paymentRows[i].creditsBalance >= 0

\* C26: the credits of a paid Mollie payment are added to the user's balance
\* at most once, however often the webhook is delivered for it.
C26_WebhookIdempotent ==
    \A id \in MolliePaymentIds : credited[id] <= 1

\* C27: once the user has a Payment row with isUnlimited = true,
\* checkUserQuota returns hasQuota = true and isUnlimited = true.
C27_UnlimitedStays ==
    (\E i \in 1..Len(paymentRows) : paymentRows[i].isUnlimited) =>
        LET quota == checkUserQuota(PaymentAt(paymentRows, LatestUpdated(paymentRows)))
        IN quota.hasQuota /\ quota.isUnlimited

----------------------------------------------------------------------------
(* PDF parser (src/unnamed/part_007, parsePDF) *)

\* The text of the PDF is held as what each pattern of the extractors finds
\* in it: a field of the record is the pattern's first match (Undefined when
\* the pattern does not match).  supplierText and customerText are the parts
\* of the text the two party extractors search: the line after a keyword, or
\* the whole text when no keyword is there.
NoMatch == Undefined

TextPart(name, vatNumber, postalCode, city, countryCode) ==
    [name |-> name, vatNumber |-> vatNumber, postalCode |-> postalCode,
     city |-> city, countryCode |-> countryCode]

TextParts ==
    {TextPart(name, vatNumber, postal[1], postal[2], countryCode) :
        name \in {NoMatch, Str(<<"A","c","m","e"," ","N","V"," ">>)},
        vatNumber \in {NoMatch, Str(<<"B","E"," ","0","1","2","3","4","5","6","7","8","9">>)},
        postal \in {<<NoMatch, NoMatch>>, <<Str(<<"1","0","0","0">>), Str(<<"G","e","n","t"," ">>)>>},
        countryCode \in {NoMatch, Str(<<"B","E">>)}}

PdfLine == [description |-> Str(<<"W","o","r","k"," ">>), quantity |-> Num(1000), unitPrice |-> Num(5000),
            vatRate |-> Num(21000), lineTotal |-> Num(5000)]

PdfRest ==
    {[iban |-> NoMatch, lines |-> <<>>, subtotal |-> NoMatch, vatTotal |-> NoMatch, total |-> NoMatch],
     [iban |-> Str(<<"B","E","6","8"," ","5","3","9","0">>), lines |-> <<PdfLine>>,
      subtotal |-> Num(5000), vatTotal |-> Num(1050), total |-> Num(6050)]}

PdfTexts ==
    {[kind |-> "pdf", invoiceNumber |-> invoiceNumber, issueDate |-> dates[1], dueDate |-> dates[2],
      currency |-> currency, supplierText |-> supplierText, customerText |-> customerText,
      iban |-> rest.iban, lines |-> rest.lines, subtotal |-> rest.subtotal,
      vatTotal |-> rest.vatTotal, total |-> rest.total] :
        invoiceNumber \in {NoMatch, Str(<<"F","1">>)},
        dates \in {<<NoMatch, NoMatch>>, <<DateOf(20240315), DateOf(20240414)>>},
        currency \in {NoMatch, Str(<<"e","u","r">>), Str(<<"U","S","D">>)},
        supplierText \in TextParts, customerText \in TextParts, rest \in PdfRest}

\* currencyMatch ? currencyMatch[1].toUpperCase() : null
extractCurrency(text) ==
    IF text.currency = NoMatch THEN Null ELSE Str(toUpperCase(text.currency.s))

\* value.replace(/\s/g, '') of the first VAT pattern that matches
extractVATNumber(part) ==
    IF part.vatNumber = NoMatch THEN Null ELSE Str(StripWhitespace(part.vatNumber.s))

\* The result of an extractor that returns {…, mappings} | null
NoExtract == [k |-> "null"]

\* Both entries carry a path under 'supplier', whatever party the text part
\* belongs to; the city is set together with the postal code and has no entry.
extractAddress(part) ==
    LET postalMatch == part.postalCode # NoMatch
        countryMatch == part.countryCode # NoMatch
        postalCode == IF postalMatch THEN part.postalCode ELSE Undefined
        city == IF postalMatch THEN Str(trim(part.city.s)) ELSE Undefined
        countryCode == IF countryMatch THEN part.countryCode ELSE Undefined
        mappings ==
            When(postalMatch, MappingField("supplier.address.postalCode", postalCode, PdfText, 80))
            \o When(countryMatch, MappingField("supplier.address.countryCode", countryCode, PdfText, 70))
    IN  IF Truthy(postalCode) \/ Truthy(city)
        THEN [k |-> "object", address |-> Address(Undefined, city, postalCode, countryCode),
              mappings |-> mappings]
        ELSE NoExtract

\* The body shared by extractSupplier and extractCustomer: name, VAT number,
\* address, in this order, with the entries under the party's own prefix.
extractParty(part, nameField, vatField) ==
    LET name == IF part.name # NoMatch THEN Str(trim(part.name.s)) ELSE Undefined
        vatNumber == extractVATNumber(part)
        address == extractAddress(part)
    IN  [k |-> "object",
         party |-> Party(name,
                         IF address.k = "object" THEN address.address ELSE NoAddress,
                         IF Truthy(vatNumber) THEN vatNumber ELSE Undefined),
         mappings |->
            When(part.name # NoMatch, MappingField(nameField, name, PdfText, 70))
            \o When(Truthy(vatNumber), MappingField(vatField, vatNumber, PdfText, 90))
            \o (IF address.k = "object" THEN address.mappings ELSE <<>>)]

\* return party.name || party.vatNumber ? { party, mappings } : null
extractSupplier(text) ==
    LET found == extractParty(text.supplierText, "supplier.name", "supplier.vatNumber")
    IN  IF Truthy(found.party.name) \/ Truthy(found.party.vatNumber) THEN found ELSE NoExtract

\* return party.name ? { party, mappings } : null
extractCustomer(text) ==
    LET found == extractParty(text.customerText, "customer.name", "customer.vatNumber")
    IN  IF Truthy(found.party.name) THEN found ELSE NoExtract

LineDescriptionPaths == <<"lines[0].description">>

\* One line per match of the line pattern, and one entry for its description
extractInvoiceLines(text) ==
    [lines |-> [i \in 1..Len(text.lines) |->
                    [text.lines[i] EXCEPT !.description = Str(trim(text.lines[i].description.s))]
                    @@ [unitOfMeasure |-> Undefined, vatCategory |-> Undefined, confidence |-> Num(60)]],
     mappings |-> [i \in 1..Len(text.lines) |->
                    MappingField(LineDescriptionPaths[i], Str(trim(text.lines[i].description.s)), PdfText, 60)]]

\* {invoice, mappingFields} as parsePDF returns them
parsePDF(text) ==
    LET currency == Or(extractCurrency(text), Str(EUR))
        supplier == extractSupplier(text)
        customer == extractCustomer(text)
        lines == extractInvoiceLines(text)
    IN  [invoice |->
            [EmptyInvoice EXCEPT
                !.invoiceNumber = IF text.invoiceNumber # NoMatch THEN Str(trim(text.invoiceNumber.s)) ELSE Undefined,
                !.issueDate = text.issueDate,
                !.dueDate = text.dueDate,
                !.currency = currency,
                !.supplier = IF supplier.k = "object" THEN supplier.party ELSE NoParty,
                !.customer = IF customer.k = "object" THEN customer.party ELSE NoParty,
                !.iban = IF text.iban # NoMatch THEN Str(StripWhitespace(text.iban.s)) ELSE Undefined,
                !.lines = lines.lines,
                !.subtotalExclVat = text.subtotal,
                !.vatTotal = text.vatTotal,
                !.totalInclVat = text.total],
         mappingFields |->
            When(text.invoiceNumber # NoMatch,
                 MappingField("invoiceNumber", Str(trim(text.invoiceNumber.s)), PdfText, 80))
            \o When(text.issueDate # NoMatch, MappingField("issueDate", text.issueDate, PdfText, 80))
            \o When(text.dueDate # NoMatch, MappingField("dueDate", text.dueDate, PdfText, 80))
            \o <<MappingField("currency", currency, PdfText, IF currency # Str(EUR) THEN 90 ELSE 50)>>
            \o (IF supplier.k = "object" THEN supplier.mappings ELSE <<>>)
            \o (IF customer.k = "object" THEN customer.mappings ELSE <<>>)
            \o When(text.iban # NoMatch,
                    MappingField("iban", Str(StripWhitespace(text.iban.s)), PdfText, 90))
            \o lines.mappings
            \o When(text.subtotal # NoMatch, MappingField("subtotalExclVat", text.subtotal, PdfText, 80))
            \o When(text.vatTotal # NoMatch, MappingField("vatTotal", text.vatTotal, PdfText, 80))
            \o When(text.total # NoMatch, MappingField("totalInclVat", text.total, PdfText, 90))]

ParserUnchanged ==
    UNCHANGED <<before, normalized, renormalized, errors, lineChecks, ubl, status, roundVars,
                geminiKey, mimeType, extractedText, requests, aiFailures, aiResponse, aiResult,
                reportVars, quotaVars, downloadVars, billingVars, upload>>

ParsePDF ==
    /\ pc = "parse"
    /\ upload.kind = "pdf"
    /\ pc' = "parsed"
    /\ LET result == parsePDF(upload)
       IN  /\ invoice' = result.invoice
           /\ mappingFields' = result.mappingFields
    /\ ParserUnchanged

IdleParser ==
    /\ pc = "parse"
    /\ invoice = EmptyInvoice
    /\ IdlePipeline
    /\ IdleRound
    /\ IdleAI
    /\ IdleReport
    /\ IdleQuota
    /\ IdleDownload
    /\ IdleBilling

InitParsePDF ==
    /\ IdleParser
    /\ upload \in PdfTexts

SpecParsePDF == InitParsePDF /\ [][ParsePDF]_vars

PdfFieldPaths ==
    {"invoiceNumber", "issueDate", "dueDate", "currency", "iban",
     "subtotalExclVat", "vatTotal", "totalInclVat",
     "supplier.name", "supplier.vatNumber", "supplier.address.postalCode",
     "supplier.address.city", "supplier.address.countryCode",
     "customer.name", "customer.vatNumber", "customer.address.postalCode",
     "customer.address.city", "customer.address.countryCode",
     "lines[0].description", "lines[0].quantity", "lines[0].unitPrice",
     "lines[0].vatRate", "lines[0].lineTotal"}

FirstLine(inv) ==
    IF inv.lines # <<>> THEN inv.lines[1]
    ELSE Line(Undefined, Undefined, Undefined, Undefined, Undefined)

\* The value the invoice holds at a field path
FieldAt(inv, path) ==
    CASE path = "invoiceNumber" -> inv.invoiceNumber
      [] path = "issueDate" -> inv.issueDate
      [] path = "dueDate" -> inv.dueDate
      [] path = "currency" -> inv.currency
      [] path = "iban" -> inv.iban
      [] path = "subtotalExclVat" -> inv.subtotalExclVat
      [] path = "vatTotal" -> inv.vatTotal
      [] path = "totalInclVat" -> inv.totalInclVat
      [] path = "supplier.name" -> inv.supplier.name
      [] path = "supplier.vatNumber" -> inv.supplier.vatNumber
      [] path = "supplier.address.postalCode" -> inv.supplier.address.postalCode
      [] path = "supplier.address.city" -> inv.supplier.address.city
      [] path = "supplier.address.countryCode" -> inv.supplier.address.countryCode
      [] path = "customer.name" -> inv.customer.name
      [] path = "customer.vatNumber" -> inv.customer.vatNumber
      [] path = "customer.address.postalCode" -> inv.customer.address.postalCode
      [] path = "customer.address.city" -> inv.customer.address.city
      [] path = "customer.address.countryCode" -> inv.customer.address.countryCode
      [] path = "lines[0].description" -> FirstLine(inv).description
      [] path = "lines[0].quantity" -> FirstLine(inv).quantity
      [] path = "lines[0].unitPrice" -> FirstLine(inv).unitPrice
      [] path = "lines[0].vatRate" -> FirstLine(inv).vatRate
      [] path = "lines[0].lineTotal" -> FirstLine(inv).lineTotal

\* The extractor set the field from the text: the parser starts from the
\* invoice with no field set, and the currency has a default that is not text.
SetFromText(path) ==
    IF path = "currency" THEN upload.currency # NoMatch
    ELSE FieldAt(invoice, path) # Undefined

PdfTextEntries(path) ==
    {i \in 1..Len(mappingFields) :
        mappingFields[i].field = path /\ mappingFields[i].source = PdfText}

\* C24: after parsePDF the mapping-field list mirrors the extracted invoice:
\* every field path has exactly one pdf-text entry when the extractor set the
\* field from the text and no entry when the field was not found, the
\* currency without a token in the text, the customer's address fields and
\* the city found with a postal code included.
C24_MappingMirrorsInvoice ==
    (pc = "parsed" /\ upload.kind = "pdf") =>
        \A path \in PdfFieldPaths :
            Cardinality(PdfTextEntries(path)) = IF SetFromText(path) THEN 1 ELSE 0

----------------------------------------------------------------------------
(* XLSX parser (src/unnamed/part_007, parseXLSX) *)

LowerChar(c) ==
    IF \E i \in 1..Len(UpperCase) : UpperCase[i] = c
    THEN LowerCase[CHOOSE i \in 1..Len(UpperCase) : UpperCase[i] = c]
    ELSE c

RECURSIVE toLowerCase(_)
toLowerCase(str) ==
    IF str = <<>> THEN <<>> ELSE <<LowerChar(Head(str))>> \o toLowerCase(Tail(str))

\* row.join(' ')
RECURSIVE Join(_)
Join(row) ==
    IF row = <<>> THEN <<>>
    ELSE IF Len(row) = 1 THEN row[1]
    ELSE row[1] \o <<" ">> \o Join(Tail(row))

headerKeywords ==
    {<<"f","a","c","t","u","u","r">>,
     <<"i","n","v","o","i","c","e">>,
     <<"n","u","m","m","e","r">>,
     <<"n","u","m","b","e","r">>,
     <<"d","a","t","u","m">>,
     <<"d","a","t","e">>,
     <<"t","o","t","a","a","l">>,
     <<"t","o","t","a","l">>}

\* The keys of the header map with their synonyms, in the order of the object's keys
synonyms ==
    <<[key |-> "invoiceNumber", list |->
          {<<"f","a","c","t","u","u","r","n","u","m","m","e","r">>,
           <<"i","n","v","o","i","c","e"," ","n","o">>,
           <<"i","n","v","o","i","c","e"," ","n","u","m","b","e","r">>,
           <<"n","u","m","m","e","r">>,
           <<"n","u","m","b","e","r">>,
           <<"n","r">>,
           <<"f","a","c","t","u","u","r"," ","n","r">>}],
      [key |-> "issueDate", list |->
          {<<"d","a","t","u","m">>,
           <<"d","a","t","e">>,
           <<"f","a","c","t","u","u","r","d","a","t","u","m">>,
           <<"i","n","v","o","i","c","e"," ","d","a","t","e">>,
           <<"i","s","s","u","e"," ","d","a","t","e">>}],
      [key |-> "dueDate", list |->
          {<<"v","e","r","v","a","l","d","a","t","u","m">>,
           <<"d","u","e"," ","d","a","t","e">>,
           <<"p","a","y","m","e","n","t"," ","d","a","t","e">>,
           <<"b","e","t","a","a","l","d","a","t","u","m">>}],
      [key |-> "currency", list |->
          {<<"v","a","l","u","t","a">>,
           <<"c","u","r","r","e","n","c","y">>,
           <<"m","u","n","t">>}],
      [key |-> "supplierName", list |->
          {<<"l","e","v","e","r","a","n","c","i","e","r">>,
           <<"s","u","p","p","l","i","e","r">>,
           <<"v","e","r","k","o","p","e","r">>,
           <<"v","e","n","d","o","r">>,
           <<"f","r","o","m">>}],
      [key |-> "supplierVat", list |->
          {<<"l","e","v","e","r","a","n","c","i","e","r"," ","b","t","w">>,
           <<"s","u","p","p","l","i","e","r"," ","v","a","t">>,
           <<"s","u","p","p","l","i","e","r"," ","b","t","w">>,
           <<"b","t","w"," ","l","e","v","e","r","a","n","c","i","e","r">>}],
      [key |-> "supplierAddress", list |->
          {<<"l","e","v","e","r","a","n","c","i","e","r"," ","a","d","r","e","s">>,
           <<"s","u","p","p","l","i","e","r"," ","a","d","d","r","e","s","s">>,
           <<"s","u","p","p","l","i","e","r"," ","a","d","r","e","s">>,
           <<"l","e","v","e","r","a","n","c","i","e","r"," ","a","d","d","r","e","s","s">>}],
      [key |-> "customerName", list |->
          {<<"k","l","a","n","t">>,
           <<"c","u","s","t","o","m","e","r">>,
           <<"c","l","i","e","n","t">>,
           <<"a","a","n">>,
           <<"t","o">>}],
      [key |-> "customerVat", list |->
          {<<"k","l","a","n","t"," ","b","t","w">>,
           <<"c","u","s","t","o","m","e","r"," ","v","a","t">>,
           <<"c","u","s","t","o","m","e","r"," ","b","t","w">>,
           <<"b","t","w"," ","k","l","a","n","t">>}],
      [key |-> "description", list |->
          {<<"o","m","s","c","h","r","i","j","v","i","n","g">>,
           <<"d","e","s","c","r","i","p","t","i","o","n">>,
           <<"p","r","o","d","u","c","t">>,
           <<"i","t","e","m">>,
           <<"a","r","t","i","k","e","l">>}],
      [key |-> "quantity", list |->
          {<<"a","a","n","t","a","l">>,
           <<"q","u","a","n","t","i","t","y">>,
           <<"q","t","y">>,
           <<"h","o","e","v","e","e","l","h","e","i","d">>}],
      [key |-> "unitPrice", list |->
          {<<"e","e","n","h","e","i","d","s","p","r","i","j","s">>,
           <<"u","n","i","t"," ","p","r","i","c","e">>,
           <<"p","r","i","j","s">>,
           <<"p","r","i","c","e">>,
           <<"p","r","i","j","s"," ","e","x","c","l">>}],
      [key |-> "vatRate", list |->
          {<<"b","t","w">>,
           <<"v","a","t">>,
           <<"b","t","w","%">>,
           <<"v","a","t","%">>,
           <<"b","t","w"," ","p","e","r","c","e","n","t","a","g","e">>}],
      [key |-> "lineTotal", list |->
          {<<"t","o","t","a","a","l"," ","l","i","j","n">>,
           <<"l","i","n","e"," ","t","o","t","a","l">>,
           <<"l","i","j","n"," ","t","o","t","a","a","l">>,
           <<"t","o","t","a","a","l">>}],
      [key |-> "subtotal", list |->
          {<<"s","u","b","t","o","t","a","a","l">>,
           <<"s","u","b","t","o","t","a","l">>,
           <<"e","x","c","l"," ","b","t","w">>,
           <<"e","x","c","l"," ","v","a","t">>}],
      [key |-> "vatTotal", list |->
          {<<"b","t","w"," ","t","o","t","a","a","l">>,
           <<"v","a","t"," ","t","o","t","a","l">>,
           <<"t","o","t","a","a","l"," ","b","t","w">>}],
      [key |-> "total", list |->
          {<<"t","o","t","a","a","l"," ","i","n","c","l">>,
           <<"t","o","t","a","l"," ","i","n","c","l">>,
           <<"t","o","t","a","a","l">>,
           <<"t","o","t","a","l">>,
           <<"t","e"," ","b","e","t","a","l","e","n">>}]>>

HeaderKeys == {synonyms[k].key : k \in 1..Len(synonyms)}

\* headerMap[key] when no column was recorded for the key
NoColumn == -1

\* The first row of the first ten whose text holds a keyword, else the first row
headerRowIndex(data) ==
    LET rowText(i) == toLowerCase(Join(data[i + 1]))
        found == {i \in 0..(Min(10, Len(data)) - 1) :
                     LET text == rowText(i)
                     IN  \E keyword \in headerKeywords : Includes(text, keyword)}
    IN  IF found = {} THEN 0 ELSE CHOOSE i \in found : \A j \in found : i <= j

\* The index in synonyms of the first key one of whose synonyms the cell
\* holds (0: the cell names no key)
keyOfCell(cell) ==
    LET cellValue == trim(toLowerCase(cell))
        matching == {k \in 1..Len(synonyms) : \E synonym \in synonyms[k].list : Includes(cellValue, synonym)}
    IN  IF matching = {} THEN 0 ELSE CHOOSE k \in matching : \A h \in matching : k <= h

\* The key index of every cell of the row, in the order of the columns
RECURSIVE keysOfRow(_)
keysOfRow(row) ==
    IF row = <<>> THEN <<>> ELSE <<keyOfCell(Head(row))>> \o keysOfRow(Tail(row))

\* Columns are counted from 0; a later column of the same key overwrites an earlier one
buildHeaderMap(headerRow) ==
    LET keys == keysOfRow(headerRow)
    IN  [key \in HeaderKeys |->
            LET cols == {col \in 0..(Len(keys) - 1) :
                            keys[col + 1] # 0 /\ synonyms[keys[col + 1]].key = key}
            IN  IF cols = {} THEN NoColumn ELSE CHOOSE col \in cols : \A other \in cols : other <= col]

getCellAddress(row, col) ==
    (IF col \div 26 > 0 THEN UpperCase[col \div 26] ELSE "")
    \o UpperCase[(col % 26) + 1] \o ToString(row + 1)

XlsxCell(row, col) == "xlsx-cell-" \o getCellAddress(row, col)

\* headerMap.key !== undefined && rowData[headerMap.key]
CellFound(rowData, headerMap, key) ==
    /\ headerMap[key] # NoColumn
    /\ headerMap[key] < Len(rowData)
    /\ rowData[headerMap[key] + 1] # <<>>

CellText(rowData, headerMap, key) == rowData[headerMap[key] + 1]

\* One pass of the loop of extractHeaderFields over a row of text cells;
\* acc holds the invoice and the mapping fields built so far.
headerFieldsOfRow(acc, rowData, headerMap, row) ==
    LET number == trim(CellText(rowData, headerMap, "invoiceNumber"))
        takeNumber == /\ CellFound(rowData, headerMap, "invoiceNumber")
                      /\ number # <<>>
                      /\ ~Truthy(acc.invoice.invoiceNumber)
        currency == toUpperCase(trim(CellText(rowData, headerMap, "currency")))
        takeCurrency == /\ CellFound(rowData, headerMap, "currency")
                        /\ currency # <<>>
                        /\ ~Truthy(acc.invoice.currency)
        supplierName == trim(CellText(rowData, headerMap, "supplierName"))
        takeSupplier == /\ CellFound(rowData, headerMap, "supplierName")
                        /\ supplierName # <<>>
                        /\ acc.invoice.supplier.k = "undefined"
        supplierVat == trim(CellText(rowData, headerMap, "supplierVat"))
        takeSupplierVat == /\ CellFound(rowData, headerMap, "supplierVat")
                           /\ supplierVat # <<>>
                           /\ (takeSupplier \/ acc.invoice.supplier.k = "object")
        customerName == trim(CellText(rowData, headerMap, "customerName"))
        takeCustomer == /\ CellFound(rowData, headerMap, "customerName")
                        /\ customerName # <<>>
                        /\ acc.invoice.customer.k = "undefined"
        supplier == IF takeSupplier THEN Party(Str(supplierName), NoAddress, Undefined)
                    ELSE acc.invoice.supplier
    IN  [invoice |->
            [acc.invoice EXCEPT
                !.invoiceNumber = IF takeNumber THEN Str(number) ELSE @,
                !.currency = IF takeCurrency THEN Str(currency) ELSE @,
                !.supplier = IF takeSupplierVat THEN [supplier EXCEPT !.vatNumber = Str(supplierVat)]
                             ELSE supplier,
                !.customer = IF takeCustomer THEN Party(Str(customerName), NoAddress, Undefined) ELSE @],
         mappingFields |->
            acc.mappingFields
            \o When(takeNumber, MappingField("invoiceNumber", Str(number),
                                             XlsxCell(row, headerMap["invoiceNumber"]), 80))
            \o When(takeCurrency, MappingField("currency", Str(currency),
                                               XlsxCell(row, headerMap["currency"]), 90))
            \o When(takeSupplier, MappingField("supplier.name", Str(supplierName),
                                               XlsxCell(row, headerMap["supplierName"]), 80))
            \o When(takeSupplierVat, MappingField("supplier.vatNumber", Str(supplierVat),
                                                  XlsxCell(row, headerMap["supplierVat"]), 80))
            \o When(takeCustomer, MappingField("customer.name", Str(customerName),
                                               XlsxCell(row, headerMap["customerName"]), 80))]

\* The loop over the rows 0 .. rows - 1, in this order
RECURSIVE headerFieldsOfRows(_, _, _)
headerFieldsOfRows(data, headerMap, rows) ==
    IF rows = 0 THEN [invoice |-> EmptyInvoice, mappingFields |-> <<>>]
    ELSE headerFieldsOfRow(headerFieldsOfRows(data, headerMap, rows - 1),
                           data[rows], headerMap, rows - 1)

\* for (let row = 0; row < Math.min(headerRowIndex + 5, data.length); row++),
\* then the default of the currency
extractHeaderFields(data, headerMap, headerRow) ==
    LET found == headerFieldsOfRows(data, headerMap, Min(headerRow + 5, Len(data)))
    IN  [found EXCEPT !.invoice.currency = IF ~Truthy(@) THEN Str(EUR) ELSE @]

\* The sheet has no column of dates, lines or totals: the branches of
\* extractHeaderFields for the dates, extractInvoiceLines and extractTotals
\* find nothing in it.
HeaderColumnsOnly(data) ==
    LET keys == keysOfRow(data[headerRowIndex(data) + 1])
    IN  \A col \in 1..Len(keys) :
            keys[col] # 0 =>
                synonyms[keys[col]].key \notin
                    {"issueDate", "dueDate", "description", "quantity", "unitPrice", "vatRate",
                     "lineTotal", "subtotal", "vatTotal", "total"}

\* {invoice, mappingFields} as parseXLSX returns them for a sheet with header columns only
parseXLSX(data) ==
    LET headerRow == headerRowIndex(data)
        headerMap == buildHeaderMap(data[headerRow + 1])
    IN  extractHeaderFields(data, headerMap, headerRow)

ParseXLSX ==
    /\ pc = "parse"
    /\ upload.kind = "xlsx"
    /\ pc' = "parsed"
    /\ LET result == parseXLSX(upload.data)
       IN  /\ invoice' = result.invoice
           /\ mappingFields' = result.mappingFields
    /\ ParserUnchanged

MaxValueRows == 2
MaxColumns == 2

LabelCells ==
    {<<"N","u","m","m","e","r">>, <<"N","r">>, <<"M","u","n","t">>, <<"F","r","o","m">>,
     <<"K","l","a","n","t">>}
ValueCells == {<<>>, <<"F","1">>, <<" ","u","s","d">>}
TitleRows == {<<>>, << << <<>>, <<>> >> >>, << << <<"A","c","m","e">>, <<>> >> >>}

\* Sheets of text cells: at most one row above the row of labels, and up to
\* MaxValueRows rows of values below it
Sheets ==
    {above \o <<labels>> \o below :
        above \in TitleRows,
        labels \in [1..MaxColumns -> LabelCells],
        below \in UNION {[1..n -> [1..MaxColumns -> ValueCells]] : n \in 1..MaxValueRows}}

InitParseXLSX ==
    /\ IdleParser
    /\ \E data \in Sheets :
        /\ HeaderColumnsOnly(data)
        /\ upload = [kind |-> "xlsx", data |-> data]

SpecParseXLSX == InitParseXLSX /\ [][ParseXLSX]_vars

XlsxHeaderRow == headerRowIndex(upload.data)

\* The cells of the rows strictly below the header row, as entry sources
CellsBelowHeader ==
    {XlsxCell(row, col) : row \in (XlsxHeaderRow + 1)..(Len(upload.data) - 1),
                          col \in 0..(Len(upload.data[1]) - 1)}

\* C30: in parseXLSX the values stored in invoiceNumber, currency,
\* supplier.name and customer.name are read from a row strictly below the
\* detected header row; the header row's own label cell is never taken.
C30_ValuesFromBelowHeader ==
    (pc = "parsed" /\ upload.kind = "xlsx") =>
        \A field \in {"invoiceNumber", "currency", "supplier.name", "customer.name"} :
            HasMapping(mappingFields, field)
                => FindMapping(mappingFields, field).source \in CellsBelowHeader

====
